---- MODULE Spec2Model ----
(***************************************************************************)
(* Model of the credit-analyzer parsing core: XLSXParser (format           *)
(* detection, row classification, extraction, amount parsing) and          *)
(* DateUtils (date parsing).                                               *)
(*                                                                         *)
(* JavaScript values are records [k, s, m, e]:                             *)
(*   k = "str"   a string, s its characters (a sequence of one-character   *)
(*               strings; a Hebrew letter is written by its name)          *)
(*   k = "num"   a finite number, the decimal m / 10^e, normalised         *)
(*   k = "null", "undef", "nan"                                            *)
(* Sequences are 1-based here and 0-based in the source: At(seq, i) reads  *)
(* the source's seq[i].                                                    *)
(***************************************************************************)
EXTENDS Integers, Sequences, FiniteSets, TLC

VARIABLES
    data,           \* the 2-D row array handed to detectFormat / extractTransactions
    value,          \* the scalar handed to parseAmount / parseTransactionDate
    tzShift,        \* environment: local UTC offset at the result minus the one at 1899-12-30, ms
    exchangeRates,  \* XLSXParser.exchangeRates
    pc,             \* position: "ready" before the call, "<function>" after it
    ret,            \* what the call returned; in a session, CreditAnalyzerApp.allTransactions
    fetch,          \* position of fetchExchangeRates: "awaitFetch", "awaitJson", "done"
    response,       \* the body response.json() decoded, undefined until it has
    files,          \* CreditAnalyzerApp.selectedFiles, the array handed to parseFiles
    results,        \* the results array of the running parseFiles call
    reading,        \* parseFiles: the 1-based index of the file being read, 0 when none
    log,            \* history: the events of the session so far, in order
    page,           \* the other fields of CreditAnalyzerApp and what the page displays
    runs,           \* the parseFiles calls in flight when analyses may overlap
    hist            \* history of the page, for the claims about it

pageVars == <<page, runs, hist>>
appVars == <<fetch, response, files, results, reading, log, page, runs, hist>>
vars ==
    <<data, value, tzShift, exchangeRates, pc, ret, fetch, response, files, results, reading, log,
      page, runs, hist>>

(***************************************************************************)
(* JavaScript values                                                       *)
(***************************************************************************)
Str(s) == [k |-> "str", s |-> s, m |-> 0, e |-> 0]
\* an XLSXParser used on its own: no page, no rate fetch, no file selected
ParserAlone ==
    /\ fetch = "none"
    /\ response = [k |-> "undef", s |-> <<>>, m |-> 0, e |-> 0]
    /\ files = <<>>
    /\ results = <<>>
    /\ reading = 0
    /\ log = <<>>
    /\ page = <<>>
    /\ runs = <<>>
    /\ hist = <<>>
Null == [k |-> "null", s |-> <<>>, m |-> 0, e |-> 0]
Undefined == [k |-> "undef", s |-> <<>>, m |-> 0, e |-> 0]
NaN == [k |-> "nan", s |-> <<>>, m |-> 0, e |-> 0]
EmptyString == Str(<<>>)
\* this.exchangeRates after construction
NoRates == Null

RECURSIVE Pow10(_)
Pow10(n) == IF n = 0 THEN 1 ELSE 10 * Pow10(n - 1)

RECURSIVE Num(_, _)
\* the number m / 10^e, trailing zeros of the fraction dropped (1.50 = 1.5, -0 = 0)
Num(m, e) ==
    IF e > 0 /\ m % 10 = 0 THEN Num(m \div 10, e - 1)
    ELSE [k |-> "num", s |-> <<>>, m |-> m, e |-> e]

Abs(n) == IF n < 0 THEN -n ELSE n
Min(a, b) == IF a < b THEN a ELSE b

\* the source's seq[i]: undefined outside the array (and for an undefined index)
At(seq, i) == IF i >= 0 /\ i < Len(seq) THEN seq[i + 1] ELSE Undefined

\* JavaScript truthiness of a value
Truthy(v) ==
    CASE v.k = "str" -> Len(v.s) > 0
      [] v.k = "num" -> v.m # 0
      [] OTHER -> FALSE

\* a || b
OrElse(a, b) == IF Truthy(a) THEN a ELSE b

(***************************************************************************)
(* Strings                                                                 *)
(***************************************************************************)
Digits == <<"0", "1", "2", "3", "4", "5", "6", "7", "8", "9">>
DigitSet == {Digits[i] : i \in 1..10}
DigitVal(c) == (CHOOSE i \in 1..10 : Digits[i] = c) - 1
WhiteSpace == {" ", "\t"}
\* the separators of the day/month/year forms (lines 422, 449, 476)
DateSeparators == {"/", ".", "-"}

\* the lower-case form of each Latin capital
LowerCase ==
    "A" :> "a" @@ "B" :> "b" @@ "C" :> "c" @@ "D" :> "d" @@ "E" :> "e" @@ "F" :> "f" @@
    "G" :> "g" @@ "H" :> "h" @@ "I" :> "i" @@ "J" :> "j" @@ "K" :> "k" @@ "L" :> "l" @@
    "M" :> "m" @@ "N" :> "n" @@ "O" :> "o" @@ "P" :> "p" @@ "Q" :> "q" @@ "R" :> "r" @@
    "S" :> "s" @@ "T" :> "t" @@ "U" :> "u" @@ "V" :> "v" @@ "W" :> "w" @@ "X" :> "x" @@
    "Y" :> "y" @@ "Z" :> "z"

\* String.prototype.toLowerCase: Latin capitals change, everything else stays
ToLowerChar(c) == IF c \in DOMAIN LowerCase THEN LowerCase[c] ELSE c
RECURSIVE ToLowerCase(_)
ToLowerCase(s) == IF Len(s) = 0 THEN <<>> ELSE <<ToLowerChar(s[1])>> \o ToLowerCase(Tail(s))

RECURSIVE TrimStart(_)
TrimStart(s) == IF Len(s) > 0 /\ s[1] \in WhiteSpace THEN TrimStart(Tail(s)) ELSE s
RECURSIVE TrimEnd(_)
TrimEnd(s) ==
    IF Len(s) > 0 /\ s[Len(s)] \in WhiteSpace THEN TrimEnd(SubSeq(s, 1, Len(s) - 1)) ELSE s
\* String.prototype.trim
Trim(s) == TrimEnd(TrimStart(s))

\* String.prototype.includes
Includes(hay, needle) ==
    \E i \in 0..(Len(hay) - Len(needle)) : \A j \in 1..Len(needle) : hay[i + j] = needle[j]

RECURSIVE NatToString(_)
NatToString(n) ==
    IF n < 10 THEN <<Digits[n + 1]>> ELSE NatToString(n \div 10) \o <<Digits[(n % 10) + 1]>>

RECURSIVE PadStart(_, _, _)
\* String.prototype.padStart(n, c)
PadStart(s, n, c) == IF Len(s) >= n THEN s ELSE PadStart(<<c>> \o s, n, c)

\* Number to string, for the plain decimals a sheet holds (no exponent form)
NumberToString(v) ==
    LET a == Abs(v.m)
        sign == IF v.m < 0 THEN <<"-">> ELSE <<>>
    IN  IF v.e = 0 THEN sign \o NatToString(a)
        ELSE sign \o NatToString(a \div Pow10(v.e)) \o <<".">>
                  \o PadStart(NatToString(a % Pow10(v.e)), v.e, "0")

\* String(v)
ToStr(v) ==
    CASE v.k = "str" -> v.s
      [] v.k = "num" -> NumberToString(v)
      [] v.k = "null" -> <<"n", "u", "l", "l">>
      [] v.k = "undef" -> <<"u", "n", "d", "e", "f", "i", "n", "e", "d">>
      [] OTHER -> <<"N", "a", "N">>

RECURSIVE TakeDigits(_)
\* the longest prefix of decimal digits
TakeDigits(s) ==
    IF Len(s) > 0 /\ s[1] \in DigitSet THEN <<s[1]>> \o TakeDigits(Tail(s)) ELSE <<>>

RECURSIVE DigitsToNat(_)
DigitsToNat(ds) ==
    IF Len(ds) = 0 THEN 0
    ELSE 10 * DigitsToNat(SubSeq(ds, 1, Len(ds) - 1)) + DigitVal(ds[Len(ds)])

(***************************************************************************)
(* XLSXParser.parseAmount                                                  *)
(***************************************************************************)
\* parseFloat: the longest prefix that is a decimal literal (sign, digits, point,
\* digits); NaN when that prefix holds no digit. Leading white space is skipped.
\* The exponent and Infinity forms need a letter, and cleaning leaves none.
ParseFloat(str) ==
    LET s == TrimStart(str)
        signed == Len(s) > 0 /\ s[1] \in {"-", "+"}
        neg == Len(s) > 0 /\ s[1] = "-"
        body == IF signed THEN Tail(s) ELSE s
        ip == TakeDigits(body)
        rest == SubSeq(body, Len(ip) + 1, Len(body))
        fp == IF Len(rest) > 0 /\ rest[1] = "." THEN TakeDigits(Tail(rest)) ELSE <<>>
        mag == DigitsToNat(ip) * Pow10(Len(fp)) + DigitsToNat(fp)
    IN  IF Len(ip) = 0 /\ Len(fp) = 0 THEN NaN
        ELSE Num(IF neg THEN -mag ELSE mag, Len(fp))

\* mutant: a minus sign is kept only at the start of the cleaned value
CleanValueLeadingMinus(str) ==
    LET kept == SelectSeq(Trim(str), LAMBDA c : c \in DigitSet \cup {".", "-"})
        inner == SelectSeq(kept, LAMBDA c : c # "-")
    IN  IF Len(kept) > 0 /\ kept[1] = "-" THEN <<"-">> \o inner ELSE inner

\* String(value).trim().replace(/,/g, '').replace(/[^\d.-]/g, '')
CleanValue(str) ==
    LET noCommas == SelectSeq(Trim(str), LAMBDA c : c # ",")
    IN  SelectSeq(noCommas, LAMBDA c : c \in DigitSet \cup {".", "-"})

\* mutant: an unparseable amount becomes 0 instead of null
ParseAmountZero(v) ==
    IF v.k \in {"null", "undef"} \/ v = EmptyString THEN Num(0, 0)
    ELSE LET parsed == ParseFloat(CleanValue(ToStr(v)))
         IN  IF parsed.k = "nan" THEN Num(0, 0) ELSE parsed

ParseAmount(v) ==
    IF v.k \in {"null", "undef"} \/ v = EmptyString THEN Null
    ELSE LET parsed == ParseFloat(CleanValue(ToStr(v)))
         IN  IF parsed.k = "nan" THEN Null ELSE parsed

(***************************************************************************)
(* XLSXParser.detectFormat                                                 *)
(***************************************************************************)
\* 'קטגוריה'
KwCategory == <<"Qof", "Tet", "Gimel", "Vav", "Resh", "Yod", "He">>
\* 'תאריך עסקה'
KwTransactionDate == <<"Tav", "Alef", "Resh", "Yod", "KafSofit", " ", "Ayin", "Samekh", "Qof", "He">>
\* 'שם בית עסק'
KwMerchantName == <<"Shin", "MemSofit", " ", "Bet", "Yod", "Tav", " ", "Ayin", "Samekh", "Qof">>
\* 'שם בית העסק'
KwMerchantNameThe ==
    <<"Shin", "MemSofit", " ", "Bet", "Yod", "Tav", " ", "He", "Ayin", "Samekh", "Qof">>

\* a column a layout does not map (cols.x === undefined)
NoColumn == -1
ScanRows == 10
DefaultHeaderRow == 8

ColumnsA ==
    [date |-> 0, merchant |-> 1, transactionAmount |-> 2, transactionCurrency |-> 3,
     billingAmount |-> 4, billingCurrency |-> 5, receiptNumber |-> 6, additionalDetails |-> 7,
     category |-> NoColumn, billingDate |-> NoColumn, notes |-> NoColumn]
ColumnsB ==
    [date |-> 0, merchant |-> 1, category |-> 2, transactionAmount |-> 7,
     transactionCurrency |-> 8, billingAmount |-> 5, billingCurrency |-> 6, billingDate |-> 9,
     notes |-> 10, receiptNumber |-> NoColumn, additionalDetails |-> NoColumn]

FormatB(i) ==
    [type |-> "FORMAT_B", name |-> "Discount/Max/Other Issuer", headerRow |-> i,
     dataStartRow |-> i + 1, columns |-> ColumnsB]
FormatA(i) ==
    [type |-> "FORMAT_A", name |-> "Original Format", headerRow |-> i,
     dataStartRow |-> i + 1, columns |-> ColumnsA]
\* mutant: the default layout starts its data at its header row
DefaultFormatDataAtHeader ==
    [type |-> "FORMAT_A", name |-> "Original Format (Default)", headerRow |-> DefaultHeaderRow,
     dataStartRow |-> DefaultHeaderRow, columns |-> ColumnsA]

DefaultFormat ==
    [type |-> "FORMAT_A", name |-> "Original Format (Default)", headerRow |-> DefaultHeaderRow,
     dataStartRow |-> DefaultHeaderRow + 1, columns |-> ColumnsA]

\* an element of Array.prototype.join: null and undefined give the empty string
JoinItem(v) == IF v.k \in {"null", "undef"} THEN <<>> ELSE ToStr(v)

RECURSIVE Join(_, _)
\* row.join(sep)
Join(row, sep) ==
    IF Len(row) = 0 THEN <<>>
    ELSE IF Len(row) = 1 THEN JoinItem(row[1])
    ELSE JoinItem(row[1]) \o sep \o Join(Tail(row), sep)

\* row.join('|').toLowerCase()
RowStr(row) == ToLowerCase(Join(row, <<"|">>))

\* the test at line 129
MatchesB(rowStr) == Includes(rowStr, KwCategory) /\ Includes(rowStr, KwTransactionDate)
\* the test at line 150
MatchesA(rowStr) == Includes(rowStr, KwMerchantName) /\ ~Includes(rowStr, KwCategory)

RECURSIVE FirstRowMatching(_, _, _)
\* the index of the first scanned row from i on that matches layout t's test; -1 if none
FirstRowMatching(d, i, t) ==
    IF i >= Min(ScanRows, Len(d)) THEN -1
    ELSE IF /\ Len(At(d, i)) > 0
            /\ IF t = "FORMAT_B" THEN MatchesB(RowStr(At(d, i))) ELSE MatchesA(RowStr(At(d, i)))
         THEN i
    ELSE FirstRowMatching(d, i + 1, t)

\* mutant: layouts are tried one after the other over all scanned rows, FORMAT_B first
DetectFromLayoutMajor(d, i) ==
    LET b == FirstRowMatching(d, i, "FORMAT_B")
        a == FirstRowMatching(d, i, "FORMAT_A")
    IN  IF b >= 0 THEN FormatB(b) ELSE IF a >= 0 THEN FormatA(a) ELSE DefaultFormat

RECURSIVE DetectFromUnbounded(_, _)
\* mutant: the scan does not stop after the first ten rows
DetectFromUnbounded(d, i) ==
    IF i >= Len(d) THEN DefaultFormat
    ELSE LET row == At(d, i)
         IN  IF Len(row) = 0 THEN DetectFromUnbounded(d, i + 1)
             ELSE IF MatchesB(RowStr(row)) THEN FormatB(i)
             ELSE IF MatchesA(RowStr(row)) THEN FormatA(i)
             ELSE DetectFromUnbounded(d, i + 1)

RECURSIVE DetectFrom(_, _)
\* the loop of detectFormat from row i on
DetectFrom(d, i) ==
    IF i >= Min(ScanRows, Len(d)) THEN DefaultFormat
    ELSE LET row == At(d, i)
         IN  IF Len(row) = 0 THEN DetectFrom(d, i + 1)
             ELSE IF MatchesB(RowStr(row)) THEN FormatB(i)
             ELSE IF MatchesA(RowStr(row)) THEN FormatA(i)
             ELSE DetectFrom(d, i + 1)

DetectFormat(d) == DetectFrom(d, 0)

(***************************************************************************)
(* XLSXParser.convertToILS, isSummaryRow, extractTransactions              *)
(***************************************************************************)
\* mutant: a failed fetch leaves the table as it was constructed
FallbackRatesMissing == NoRates

\* { USD: 3.70, EUR: 4.05, GBP: 4.70, date: 'Fixed Rate' }
FallbackRates ==
    [k |-> "rates", USD |-> Num(370, 2), EUR |-> Num(405, 2), GBP |-> Num(470, 2),
     date |-> "Fixed Rate"]

\* names every object literal inherits from Object.prototype (two of them)
InheritedKeys ==
    { <<"c", "o", "n", "s", "t", "r", "u", "c", "t", "o", "r">>,
      <<"t", "o", "S", "t", "r", "i", "n", "g">> }

\* currencyMap[currency]: the code, "" where the lookup gives undefined, "inherited"
\* where it gives a member of Object.prototype (a truthy value that names no rate)
CurrencyCode(c) ==
    CASE c \in {<<"$">>, <<"U", "S", "D">>} -> "USD"
      [] c \in {<<"Euro">>, <<"E", "U", "R">>} -> "EUR"
      [] c \in {<<"Pound">>, <<"G", "B", "P">>} -> "GBP"
      [] c \in InheritedKeys -> "inherited"
      [] OTHER -> ""

\* mutant: every code reads the dollar rate
RateOfDollar(rates, code) == rates.USD

\* this.exchangeRates[currencyCode] on a rate table
RateOf(rates, code) ==
    CASE code = "USD" -> rates.USD
      [] code = "EUR" -> rates.EUR
      [] code = "GBP" -> rates.GBP
      [] OTHER -> Undefined

\* a * b, in exact decimal arithmetic
Times(a, b) == Num(a.m * b.m, a.e + b.e)

\* convertToILS(amount, currency) under this.exchangeRates = rates: the value
\* returned, or threw when reading a property of null throws a TypeError (line 59)
ConvertToILS(amount, currency, rates) ==
    IF Len(currency) = 0 \/ currency = <<"Shekel">> \/ currency = <<"I", "L", "S">>
    THEN [threw |-> FALSE, v |-> amount]
    ELSE LET code == CurrencyCode(Trim(currency))
         IN  IF code = "" THEN [threw |-> FALSE, v |-> amount]
             ELSE IF rates = Null THEN [threw |-> TRUE, v |-> Undefined]
             ELSE IF Truthy(RateOf(rates, code))
                  THEN [threw |-> FALSE, v |-> Times(amount, RateOf(rates, code))]
             ELSE [threw |-> FALSE, v |-> amount]

\* 'סה"כ', 'סהכ', 'סך הכל', 'סכום כולל', 'סיכום', 'total', 'sum', 'כללי'
SummaryKeywords ==
    { <<"Samekh", "He", "\"", "Kaf">>,
      <<"Samekh", "He", "Kaf">>,
      <<"Samekh", "KafSofit", " ", "He", "Kaf", "Lamed">>,
      <<"Samekh", "Kaf", "Vav", "MemSofit", " ", "Kaf", "Vav", "Lamed", "Lamed">>,
      <<"Samekh", "Yod", "Kaf", "Vav", "MemSofit">>,
      <<"t", "o", "t", "a", "l">>,
      <<"s", "u", "m">>,
      <<"Kaf", "Lamed", "Lamed", "Yod">> }
\* 'הוראת קבע'
KwStandingOrder == <<"He", "Vav", "Resh", "Alef", "Tav", " ", "Qof", "Bet", "Ayin">>

\* row[col], undefined for a column the layout does not map
Cell(row, col) == IF col = NoColumn THEN Undefined ELSE At(row, col)

\* String(row[col] || '').trim()
TrimmedCell(row, col) == Trim(ToStr(OrElse(Cell(row, col), EmptyString)))

\* summaryKeywords.some(keyword => lower.includes(keyword.toLowerCase()))
SomeKeywordIn(lower) == \E kw \in SummaryKeywords : Includes(lower, ToLowerCase(kw))
HasSummaryKeyword(text) == SomeKeywordIn(ToLowerCase(text))

\* mutant: only the keywords mark a summary row, not an empty date beside an amount
IsSummaryRowKeywordsOnly(row, format) ==
    IF Len(row) = 0 THEN FALSE
    ELSE \/ HasSummaryKeyword(TrimmedCell(row, format.columns.merchant))
         \/ HasSummaryKeyword(TrimmedCell(row, format.columns.date))

\* mutant: a date that does not start with a digit counts as no date
IsSummaryRowDigitlessDate(row, format) ==
    IF Len(row) = 0 THEN FALSE
    ELSE LET cols == format.columns
             merchantName == TrimmedCell(row, cols.merchant)
             date == TrimmedCell(row, cols.date)
             hasAmount == ParseAmount(Cell(row, cols.billingAmount)) # Null
             noDate == Len(date) = 0 \/ date[1] \notin DigitSet
         IN  \/ HasSummaryKeyword(merchantName)
             \/ HasSummaryKeyword(date)
             \/ (noDate /\ hasAmount /\ Len(merchantName) > 0)

IsSummaryRow(row, format) ==
    IF Len(row) = 0 THEN FALSE
    ELSE LET cols == format.columns
             merchantName == TrimmedCell(row, cols.merchant)
             date == TrimmedCell(row, cols.date)
             hasSummaryKeyword == HasSummaryKeyword(merchantName)
             dateHasSummary == HasSummaryKeyword(date)
             hasAmount == ParseAmount(Cell(row, cols.billingAmount)) # Null
             noDate == Len(date) = 0
         IN  IF format.type = "FORMAT_B" /\ dateHasSummary THEN TRUE
             ELSE hasSummaryKeyword \/ dateHasSummary \/ (noDate /\ hasAmount /\ Len(merchantName) > 0)

\* the record pushed at lines 294-308; srcRow is the loop index i of its row
Transaction(row, i, format, billingAmount, amountInILS) ==
    LET cols == format.columns
        receiptNumber ==
            IF cols.receiptNumber # NoColumn THEN Cell(row, cols.receiptNumber) ELSE EmptyString
        additionalDetails ==
            IF cols.additionalDetails # NoColumn THEN Cell(row, cols.additionalDetails)
            ELSE EmptyString
        category == IF cols.category # NoColumn THEN Cell(row, cols.category) ELSE EmptyString
        notes == IF cols.notes # NoColumn THEN Cell(row, cols.notes) ELSE EmptyString
        details == OrElse(OrElse(additionalDetails, notes), EmptyString)
    IN  [ srcRow |-> i,
          date |-> OrElse(Cell(row, cols.date), EmptyString),
          merchant |-> Trim(ToStr(Cell(row, cols.merchant))),
          transactionAmount |-> ParseAmount(Cell(row, cols.transactionAmount)),
          transactionCurrency |-> TrimmedCell(row, cols.transactionCurrency),
          billingAmount |-> billingAmount,
          billingCurrency |-> TrimmedCell(row, cols.billingCurrency),
          amountInILS |-> amountInILS,
          receiptNumber |-> receiptNumber,
          additionalDetails |-> OrElse(additionalDetails, notes),
          category |-> category,
          isRecurring |-> Includes(details.s, KwStandingOrder),
          isRefund |-> billingAmount.m < 0,
          sourceFormat |-> format.type ]

\* (additionalDetails || notes || '').includes(...) at line 305 throws a TypeError when
\* the value is a number: numbers have no includes method
DetailsThrow(row, format) ==
    LET cols == format.columns
        additionalDetails ==
            IF cols.additionalDetails # NoColumn THEN Cell(row, cols.additionalDetails)
            ELSE EmptyString
        notes == IF cols.notes # NoColumn THEN Cell(row, cols.notes) ELSE EmptyString
    IN  OrElse(OrElse(additionalDetails, notes), EmptyString).k # "str"

\* mutant: a row whose billing amount does not parse is kept
ExtractRowKeepUnparsed(row, i, format, rates) ==
    LET cols == format.columns
        billingAmount == ParseAmount(Cell(row, cols.billingAmount))
    IN  IF Len(row) = 0 \/ ~Truthy(Cell(row, cols.merchant)) THEN [kind |-> "skip"]
        ELSE IF Trim(ToStr(Cell(row, cols.merchant))) \in {KwMerchantName, KwMerchantNameThe, <<>>}
        THEN [kind |-> "skip"]
        ELSE IF IsSummaryRow(row, format) THEN [kind |-> "skip"]
        ELSE [kind |-> "push", tx |-> Transaction(row, i, format, billingAmount, billingAmount)]

\* one pass of the loop body (lines 253-308) on row i: the row is skipped, a
\* transaction is pushed, or an exception leaves extractTransactions
ExtractRow(row, i, format, rates) ==
    LET cols == format.columns
        merchantName == Trim(ToStr(Cell(row, cols.merchant)))
        billingAmount == ParseAmount(Cell(row, cols.billingAmount))
        converted == ConvertToILS(billingAmount, TrimmedCell(row, cols.billingCurrency), rates)
    IN  IF Len(row) = 0 \/ ~Truthy(Cell(row, cols.merchant)) THEN [kind |-> "skip"]
        ELSE IF merchantName \in {KwMerchantName, KwMerchantNameThe, <<>>} THEN [kind |-> "skip"]
        ELSE IF IsSummaryRow(row, format) THEN [kind |-> "skip"]
        ELSE IF Len(merchantName) = 0 \/ billingAmount = Null THEN [kind |-> "skip"]
        ELSE IF converted.threw \/ DetailsThrow(row, format) THEN [kind |-> "throw"]
        ELSE [kind |-> "push", tx |-> Transaction(row, i, format, billingAmount, converted.v)]

\* the outcome of the loop, from the outcome of one row and that of the rows after it
Continue(step, rest) ==
    IF step.kind = "throw" \/ rest.threw THEN [threw |-> TRUE, transactions |-> <<>>]
    ELSE IF step.kind = "skip" THEN rest
    ELSE [threw |-> FALSE, transactions |-> <<step.tx>> \o rest.transactions]

RECURSIVE ExtractFrom(_, _, _, _)
\* the loop of extractTransactions from row i on
ExtractFrom(d, i, format, rates) ==
    IF i >= Len(d) THEN [threw |-> FALSE, transactions |-> <<>>]
    ELSE Continue(ExtractRow(At(d, i), i, format, rates), ExtractFrom(d, i + 1, format, rates))

\* extractTransactions(data) under this.exchangeRates = rates: the list returned, or
\* threw when an exception leaves the call
ExtractIn(d, format, rates) == ExtractFrom(d, format.dataStartRow, format, rates)
ExtractTransactions(d, rates) == ExtractIn(d, DetectFormat(d), rates)

\* mutant: the list is a member that keeps what the earlier call returned
KeptList(earlier) == IF "transactions" \in DOMAIN earlier THEN earlier.transactions ELSE <<>>

\* const transactions = [] (line 243): the list a call fills, earlier being what the
\* call before it returned
NewList(earlier) == <<>>

\* extractTransactions filling the list it was given
ExtractInto(list, result) ==
    IF result.threw THEN result
    ELSE [threw |-> FALSE, transactions |-> list \o result.transactions]

(***************************************************************************)
(* DateUtils.parseTransactionDate                                          *)
(*                                                                         *)
(* A Date is modelled by its local calendar day [k |-> "date", y, mo, d]   *)
(* (mo is 1..12; getMonth() is mo - 1).                                    *)
(***************************************************************************)
DateOf(y, mo, d) == [k |-> "date", y |-> y, mo |-> mo, d |-> d]

\* day number of a civil date, counted from 1970-01-01 (proleptic Gregorian)
DaysFromCivil(y, mo, d) ==
    LET yy == IF mo <= 2 THEN y - 1 ELSE y
        era == yy \div 400
        yoe == yy - era * 400
        mp == IF mo > 2 THEN mo - 3 ELSE mo + 9
        doy == (153 * mp + 2) \div 5 + d - 1
        doe == yoe * 365 + yoe \div 4 - yoe \div 100 + doy
    IN  era * 146097 + doe - 719468

\* the civil date of a day number: what getFullYear / getMonth / getDate read
CivilFromDays(n) ==
    LET z == n + 719468
        era == z \div 146097
        doe == z - era * 146097
        yoe == (doe - doe \div 1460 + doe \div 36524 - doe \div 146096) \div 365
        doy == doe - (365 * yoe + yoe \div 4 - yoe \div 100)
        mp == (5 * doy + 2) \div 153
        d == doy - (153 * mp + 2) \div 5 + 1
        mo == IF mp < 10 THEN mp + 3 ELSE mp - 9
        y == yoe + era * 400 + (IF mo <= 2 THEN 1 ELSE 0)
    IN  DateOf(y, mo, d)

\* new Date(year, month - 1, day): a day past the month's end rolls into the next month
MakeDate(year, month, day) == CivilFromDays(DaysFromCivil(year, month, 1) + day - 1)

\* new Date(1899, 11, 30): local midnight
ExcelEpochDay == DaysFromCivil(1899, 12, 30)
MsPerDay == 86400000

\* new Date(excelEpoch.getTime() + serial * 86400000), read in local time. The epoch
\* is local midnight under the UTC offset in force in 1899; the result is read under
\* the offset in force at the result: shift (ms) is the second minus the first.
SerialToDate(serial, shift) ==
    LET scale == Pow10(serial.e)
        wholeDays == serial.m \div scale
        \* the ms of the fractional day (the scale divides a day's ms up to 5 places)
        dayMs == (serial.m % scale) * (MsPerDay \div scale)
    IN  CivilFromDays(ExcelEpochDay + wholeDays + (dayMs + shift) \div MsPerDay)

\* parseInt(str, 10)
ParseInt(str) ==
    LET s == TrimStart(str)
        signed == Len(s) > 0 /\ s[1] \in {"-", "+"}
        neg == Len(s) > 0 /\ s[1] = "-"
        ds == TakeDigits(IF signed THEN Tail(s) ELSE s)
    IN  IF Len(ds) = 0 THEN NaN ELSE Num(IF neg THEN -DigitsToNat(ds) ELSE DigitsToNat(ds), 0)

RECURSIVE Split(_, _)
\* String.prototype.split(sep), sep one character
Split(s, sep) ==
    IF \E i \in 1..Len(s) : s[i] = sep
    THEN LET i == CHOOSE i \in 1..Len(s) : s[i] = sep /\ \A j \in 1..(i - 1) : s[j] # sep
         IN  <<SubSeq(s, 1, i - 1)>> \o Split(SubSeq(s, i + 1, Len(s)), sep)
    ELSE <<s>>

MinYear == 2000
MaxYear == 2100

\* mutant: no round-trip check after new Date(year, month - 1, day)
DayMonthYearNoRoundTrip(parts) ==
    IF Len(parts) # 3 THEN Null
    ELSE LET day == ParseInt(parts[1])
             month == ParseInt(parts[2])
             year0 == ParseInt(parts[3])
         IN  IF day.k = "nan" \/ month.k = "nan" \/ year0.k = "nan" THEN Null
             ELSE LET year == IF year0.m < 100 THEN year0.m + 2000 ELSE year0.m
                  IN  IF /\ day.m >= 1 /\ day.m <= 31 /\ month.m >= 1 /\ month.m <= 12
                         /\ year >= MinYear /\ year <= MaxYear
                      THEN MakeDate(year, month.m, day.m)
                      ELSE Null

\* one of the three blocks at lines 422-498, on the parts of the split string;
\* Null when the block falls through to the next step
DayMonthYear(parts) ==
    IF Len(parts) # 3 THEN Null
    ELSE LET day == ParseInt(parts[1])
             month == ParseInt(parts[2])
             year0 == ParseInt(parts[3])
         IN  IF day.k = "nan" \/ month.k = "nan" \/ year0.k = "nan" THEN Null
             ELSE LET year == IF year0.m < 100 THEN year0.m + 2000 ELSE year0.m
                  IN  IF /\ day.m >= 1 /\ day.m <= 31 /\ month.m >= 1 /\ month.m <= 12
                         /\ year >= MinYear /\ year <= MaxYear
                      THEN LET date == MakeDate(year, month.m, day.m)
                           IN  IF date.y = year /\ date.mo - 1 = month.m - 1 /\ date.d = day.m
                               THEN date ELSE Null
                      ELSE Null

AllDigits(s) == Len(s) > 0 /\ \A i \in 1..Len(s) : s[i] \in DigitSet

\* a year below 100 in a non-ISO date string: 0..49 is 20yy, 50..99 is 19yy
LegacyYear(y) == IF y < 50 THEN 2000 + y ELSE IF y < 100 THEN 1900 + y ELSE y

\* the reading of three numbers that the engines with a lenient parser (V8) give:
\* month, day, year when the first number can be a day number (1..31), otherwise
\* year, month, day; the month must be 1..12 and the day 1..31, and a day past the
\* month's end rolls into the next month
LegacyRead(parts) ==
    LET c == [i \in 1..3 |-> DigitsToNat(parts[i])]
        monthFirst == c[1] >= 1 /\ c[1] <= 31
        year == LegacyYear(IF monthFirst THEN c[3] ELSE c[1])
        month == IF monthFirst THEN c[1] ELSE c[2]
        day == IF monthFirst THEN c[2] ELSE c[3]
    IN  IF month < 1 \/ month > 12 \/ day < 1 \/ day > 31 THEN Null
        ELSE MakeDate(year, month, day)

NumericParts(s, sep) ==
    /\ Len(Split(s, sep)) = 3
    /\ \A i \in 1..3 : AllDigits(Split(s, sep)[i])

\* new Date(dateString): the set of results engines give (the format is theirs to
\* choose outside the ISO form).
\*  - YYYY-MM-DD (the ISO date form) is UTC midnight of that day: read in local time,
\*    that day, or the day before where local time is behind UTC; a day that does not
\*    exist is Invalid, or rolls over where the engine falls back to its own format;
\*  - m/d/yyyy naming a real day is read month first by every engine;
\*  - other strings of three numbers: Invalid, or the lenient reading, by engine;
\*  - the other strings checked here are Invalid in every engine.
DateParse(s) ==
    IF NumericParts(s, "-") /\ Len(Split(s, "-")[1]) = 4
    THEN LET p == Split(s, "-")
             y == DigitsToNat(p[1])
             mo == DigitsToNat(p[2])
             d == DigitsToNat(p[3])
         IN  IF Len(p[2]) # 2 \/ Len(p[3]) # 2 \/ mo < 1 \/ mo > 12 \/ d < 1 \/ d > 31
             THEN {Null}
             ELSE IF MakeDate(y, mo, d) = DateOf(y, mo, d)
                  THEN {DateOf(y, mo, d), CivilFromDays(DaysFromCivil(y, mo, d) - 1)}
             ELSE {Null, MakeDate(y, mo, d)}
    ELSE IF NumericParts(s, "/")
    THEN LET p == Split(s, "/")
             mo == DigitsToNat(p[1])
             d == DigitsToNat(p[2])
             y == DigitsToNat(p[3])
         IN  IF /\ mo >= 1 /\ mo <= 12 /\ d >= 1 /\ Len(p[3]) = 4
                /\ MakeDate(y, mo, d) = DateOf(y, mo, d)
             THEN {DateOf(y, mo, d)}
             ELSE {Null, LegacyRead(p)}
    ELSE IF NumericParts(s, "-") THEN {Null, LegacyRead(Split(s, "-"))}
    ELSE IF NumericParts(s, ".") THEN {Null, LegacyRead(Split(s, "."))}
    ELSE {Null}

\* mutant: the generic parse and the serial conversion are not year-gated
YearGateOpen(date) == date

\* the year checks at lines 406-409 and 504-507
YearGate(date) == IF date = Null \/ date.y < MinYear \/ date.y > MaxYear THEN Null ELSE date

\* the set of values parseTransactionDate(dateInput) can return; shift is the
\* environment's offset difference read by SerialToDate
ParseTransactionDate(dateInput, shift) ==
    IF ~Truthy(dateInput) THEN {Null}
    ELSE IF dateInput.k = "num" THEN {YearGate(SerialToDate(dateInput, shift))}
    ELSE LET dateString == Trim(ToStr(dateInput))
             slash == DayMonthYear(Split(dateString, "/"))
             dot == DayMonthYear(Split(dateString, "."))
             dash == DayMonthYear(Split(dateString, "-"))
         IN  IF Len(dateString) = 0 THEN {Null}
             ELSE IF slash # Null THEN {slash}
             ELSE IF dot # Null THEN {dot}
             ELSE IF dash # Null THEN {dash}
             ELSE {YearGate(date) : date \in DateParse(dateString)}

(***************************************************************************)
(* Inputs of detectFormat                                                  *)
(***************************************************************************)
\* 'תאריך', 'סכום חיוב'
WordDate == <<"Tav", "Alef", "Resh", "Yod", "KafSofit">>
WordBillingAmount == <<"Samekh", "Kaf", "Vav", "MemSofit", " ", "Het", "Yod", "Vav", "Bet">>

EmptyRow == <<>>
BlankRow == <<EmptyString, EmptyString, EmptyString>>
TitleRow == <<Str(<<"V", "i", "s", "a">>), Num(1234, 0)>>
HeaderRowA == <<Str(WordDate), Str(KwMerchantName), EmptyString, EmptyString, Str(WordBillingAmount)>>
HeaderRowB ==
    <<Str(KwTransactionDate), Str(KwMerchantNameThe), Str(KwCategory), EmptyString,
      EmptyString, Str(WordBillingAmount)>>
\* both merchant-name keyword and the two FORMAT_B keywords on one row
HeaderRowBoth == <<Str(KwTransactionDate), Str(KwMerchantName), Str(KwCategory)>>
\* merchant-name keyword and category, no transaction date: neither signature
HeaderRowMerchantCategory == <<Str(WordDate), Str(KwMerchantName), Str(KwCategory)>>
\* 'שם בית העסק' alone does not contain 'שם בית עסק'
HeaderRowTheMerchant == <<Str(WordDate), Str(KwMerchantNameThe)>>
\* the keyword cut in two by a cell boundary
HeaderRowSplit ==
    <<Str(<<"Shin", "MemSofit", " ", "Bet", "Yod", "Tav", " ">>), Str(<<"Ayin", "Samekh", "Qof">>)>>

DetectRowKinds ==
    {TitleRow, HeaderRowA, HeaderRowB, HeaderRowBoth, HeaderRowMerchantCategory,
     HeaderRowTheMerchant, HeaderRowSplit}

MaxLead == 11
MaxDetectBody == 2

\* n copies of row
Repeat(row, n) == [i \in 1..n |-> row]
SeqsUpTo(S, n) == UNION {[1..k -> S] : k \in 0..n}

DetectInputs ==
    {Repeat(lead, n) \o body :
        lead \in {EmptyRow, BlankRow}, n \in 0..MaxLead, body \in SeqsUpTo(DetectRowKinds, MaxDetectBody)}

InitDetect ==
    /\ data \in DetectInputs
    /\ value = Undefined
    /\ tzShift = 0
    /\ exchangeRates = NoRates
    /\ pc = "ready"
    /\ ret = Undefined
    /\ ParserAlone

CallDetectFormat ==
    /\ pc = "ready"
    /\ pc' = "detectFormat"
    /\ ret' = DetectFormat(data)
    /\ UNCHANGED <<data, value, tzShift, exchangeRates>>
    /\ UNCHANGED appVars

NextDetect == CallDetectFormat
SpecDetect == InitDetect /\ [][NextDetect]_vars

(***************************************************************************)
(* Claims about detectFormat                                               *)
(***************************************************************************)
\* some cell of the row, lower-cased, contains the keyword
CellHas(row, kw) == \E j \in 1..Len(row) : Includes(ToLowerCase(JoinItem(row[j])), kw)
SignatureB(row) == CellHas(row, KwCategory) /\ CellHas(row, KwTransactionDate)
SignatureA(row) == CellHas(row, KwMerchantName) /\ ~CellHas(row, KwCategory)
\* the indices among the first ten rows whose row matches a signature
SignedRows(d) == {i \in 0..(Min(10, Len(d)) - 1) : SignatureA(At(d, i)) \/ SignatureB(At(d, i))}
FirstOf(S) == CHOOSE i \in S : \A j \in S : i <= j

\* C1: when none of the first 10 rows matches a signature (empty input and blank rows
\* included) detectFormat returns the default layout: FORMAT_A, headerRow 8,
\* dataStartRow 9; it always returns a layout, never null.
C1_DetectFormatTotal ==
    pc = "detectFormat" =>
        /\ ret.type \in {"FORMAT_A", "FORMAT_B"}
        /\ SignedRows(data) = {} =>
              /\ ret.type = "FORMAT_A"
              /\ ret.name = "Original Format (Default)"
              /\ ret.headerRow = 8
              /\ ret.dataStartRow = 9
              /\ ret.columns = ColumnsA

\* rows with content, none matching: the default layout came back
C1_Witness ==
    /\ pc = "detectFormat"
    /\ \E i \in 0..(Len(data) - 1) : At(data, i) = HeaderRowTheMerchant
    /\ \E i \in 0..(Len(data) - 1) : At(data, i) = BlankRow
    /\ SignedRows(data) = {}
    /\ ret.headerRow = 8

\* C2 as stated: whenever a scanned row matches FORMAT_B's signature the result is
\* FORMAT_B, also when an earlier scanned row matches FORMAT_A's; FORMAT_A is returned
\* for a matching row only when no scanned row matches FORMAT_B.
C2_HigherPriorityAlwaysWins ==
    pc = "detectFormat" =>
        /\ (\E i \in SignedRows(data) : SignatureB(At(data, i))) => ret.type = "FORMAT_B"
        /\ (SignedRows(data) # {} /\ \A i \in SignedRows(data) : SignatureA(At(data, i))) =>
              (ret.type = "FORMAT_A" /\ ret.headerRow \in SignedRows(data))

\* C2 amended: the result is the layout whose signature the first matching row among
\* the first 10 carries; on one row FORMAT_B is tested first and FORMAT_A's signature
\* excludes FORMAT_B's keyword, so a row with all keywords is FORMAT_B; when the two
\* signatures stand on different rows the earlier row decides.
C2_FirstMatchingRowDecides ==
    (pc = "detectFormat" /\ SignedRows(data) # {}) =>
        LET f == FirstOf(SignedRows(data))
        IN  /\ SignatureB(At(data, f)) => ret.type = "FORMAT_B"
            /\ SignatureA(At(data, f)) => ret.type = "FORMAT_A"
            /\ (CellHas(At(data, f), KwMerchantName) /\ SignatureB(At(data, f))) =>
                   ret = FormatB(f)

\* a FORMAT_A header row stands before a FORMAT_B header row, and FORMAT_A is returned
C2_Witness ==
    /\ pc = "detectFormat"
    /\ \E i, j \in SignedRows(data) :
          i < j /\ SignatureA(At(data, i)) /\ SignatureB(At(data, j))
    /\ ret.type = "FORMAT_A"

\* C3: on a match headerRow is the smallest index below 10 whose row matches a
\* signature and dataStartRow is the next index; a signature at index 10 or later
\* changes nothing (the default layout is returned).
C3_HeaderRowIsFirstMatch ==
    pc = "detectFormat" =>
        /\ SignedRows(data) # {} =>
              /\ ret.headerRow = FirstOf(SignedRows(data))
              /\ ret.dataStartRow = ret.headerRow + 1
              /\ ret.name # "Original Format (Default)"
        /\ SignedRows(data) = {} => ret = DefaultFormat

\* the only signature stands at row index 10 or later, and the default came back
C3_Witness ==
    /\ pc = "detectFormat"
    /\ \E i \in 10..(Len(data) - 1) : SignatureA(At(data, i)) \/ SignatureB(At(data, i))
    /\ SignedRows(data) = {}
    /\ ret = DefaultFormat

(***************************************************************************)
(* Inputs of parseTransactionDate                                          *)
(***************************************************************************)
TwoDigits(n) == PadStart(NatToString(n), 2, "0")
SampleDays == {1, 5, 13, 29, 30, 31, 32}
SampleMonths == {0, 1, 2, 4, 12, 13}
SampleYears ==
    {<<"2", "4">>, <<"9", "9">>} \cup {NatToString(y) : y \in {1999, 2000, 2023, 2024, 2100, 2101}}
DayMonthYearStrings ==
    {TwoDigits(d) \o <<sep>> \o TwoDigits(mo) \o <<sep>> \o y :
        d \in SampleDays, mo \in SampleMonths, y \in SampleYears, sep \in DateSeparators}
IsoStrings ==
    {NatToString(y) \o <<"-">> \o TwoDigits(mo) \o <<"-">> \o TwoDigits(d) :
        y \in {1999, 2000, 2024, 2100, 2101}, mo \in {1, 2, 12}, d \in {1, 15, 30, 31}}
OtherDateStrings ==
    { <<>>, <<" ">>, <<"a", "b", "c">>, <<"1", "5", "/", "0", "3">>,
      <<" ", "1", "5", "/", "0", "3", "/", "2", "0", "2", "4", " ">>,
      <<"1", "/", "2", "/", "2", "0", "2", "4">>,
      <<"1", "5", "/", "x", "/", "2", "0", "2", "4">>,
      <<"1", "/", "2", "/", "3", "/", "4">> }
\* 36526 is 2000-01-01, 45292 is 2024-01-01, 73415 is 2100-12-31
SampleSerials ==
    {Num(n, 0) : n \in {-1, 0, 1, 36525, 36526, 36527, 45000, 45292, 73415, 73416, 100000}}
        \cup {Num(450005, 1), Num(365255, 1)}
DateInputs ==
    {Null, Undefined} \cup SampleSerials
        \cup {Str(s) : s \in DayMonthYearStrings \cup IsoStrings \cup OtherDateStrings}

\* no offset change since 1899; Asia/Jerusalem in winter (+2:00 now, +2:20:40 then)
\* and in summer (+3:00 now)
TzShifts == {0, -1240000, 2360000}

InitDate ==
    /\ data = <<>>
    /\ value \in DateInputs
    /\ tzShift \in TzShifts
    /\ exchangeRates = NoRates
    /\ pc = "ready"
    /\ ret = Undefined
    /\ ParserAlone

CallParseTransactionDate ==
    /\ pc = "ready"
    /\ pc' = "parseTransactionDate"
    /\ ret' \in ParseTransactionDate(value, tzShift)
    /\ UNCHANGED <<data, value, tzShift, exchangeRates>>
    /\ UNCHANGED appVars

NextDate == CallParseTransactionDate
SpecDate == InitDate /\ [][NextDate]_vars

(***************************************************************************)
(* Claims about parseTransactionDate                                       *)
(***************************************************************************)
LeapYear(y) == (y % 4 = 0 /\ y % 100 # 0) \/ y % 400 = 0
DaysInMonth(y, mo) ==
    IF mo = 2 THEN (IF LeapYear(y) THEN 29 ELSE 28)
    ELSE IF mo \in {4, 6, 9, 11} THEN 30 ELSE 31

\* v is a string D<sep>M<sep>Y: 1-2 digit day and month, 2- or 4-digit year
DayMonthYearForm(v) ==
    /\ v.k = "str"
    /\ \E sep \in DateSeparators :
          /\ NumericParts(Trim(v.s), sep)
          /\ Len(Split(Trim(v.s), sep)[1]) \in {1, 2}
          /\ Len(Split(Trim(v.s), sep)[2]) \in {1, 2}
          /\ Len(Split(Trim(v.s), sep)[3]) \in {2, 4}
PartsOf(v) == Split(Trim(v.s), CHOOSE sep \in DateSeparators : NumericParts(Trim(v.s), sep))
DayOf(v) == DigitsToNat(PartsOf(v)[1])
MonthOf(v) == DigitsToNat(PartsOf(v)[2])
YearOf(v) ==
    IF Len(PartsOf(v)[3]) = 2 THEN 2000 + DigitsToNat(PartsOf(v)[3])
    ELSE DigitsToNat(PartsOf(v)[3])
\* the components are in range and name a day of the calendar
RealDayMonthYear(v) ==
    /\ MonthOf(v) \in 1..12
    /\ YearOf(v) \in 2000..2100
    /\ DayOf(v) \in 1..DaysInMonth(YearOf(v), MonthOf(v))

Feb31 == Str(<<"3", "1", "/", "0", "2", "/", "2", "0", "2", "4">>)
Mar15 == Str(<<"1", "5", "/", "0", "3", "/", "2", "0", "2", "4">>)
May13MonthFirst == Str(<<"0", "5", "/", "1", "3", "/", "2", "0", "2", "4">>)

\* C6 as stated: a D/M/Y, D.M.Y or D-M-Y string gives its date exactly when the
\* components are in range and name a real day, and Invalid otherwise: no later step
\* reads the rejected string as another date.
C6_RejectedStaysInvalid ==
    (pc = "parseTransactionDate" /\ DayMonthYearForm(value)) =>
        /\ RealDayMonthYear(value) => ret = DateOf(YearOf(value), MonthOf(value), DayOf(value))
        /\ ~RealDayMonthYear(value) => ret = Null

\* C6 amended: such a string gives the date of its components when they are in range
\* and name a real day. Otherwise the three D/M/Y steps return nothing and the string
\* goes on to the generic calendar-string parse, which never reads it day first: the
\* result is Invalid, or a date with year in 2000..2100 read month first ("05/13/2024"
\* is 13 May 2024) or, when the first number is no day number, year first; it is
\* Invalid whenever the first number is 13..31. "31/02/2024" is Invalid; "15/03/2024"
\* is year 2024, month 3, day 15.
C6_RejectedFallsToGenericParse ==
    (pc = "parseTransactionDate" /\ DayMonthYearForm(value)) =>
        /\ RealDayMonthYear(value) => ret = DateOf(YearOf(value), MonthOf(value), DayOf(value))
        /\ (~RealDayMonthYear(value) /\ ret # Null) =>
              /\ ret.y \in 2000..2100
              /\ \/ /\ DayOf(value) \in 1..12
                    /\ MonthOf(value) \in 1..31
                    /\ ret.mo \in {DayOf(value), (DayOf(value) % 12) + 1}
                 \/ /\ DayOf(value) \notin 1..31
                    /\ MonthOf(value) \in 1..12
                    /\ ret.mo \in {MonthOf(value), (MonthOf(value) % 12) + 1}
        /\ (~RealDayMonthYear(value) /\ DayOf(value) \in 13..31) => ret = Null
        /\ value = Feb31 => ret = Null
        /\ value = Mar15 => ret = DateOf(2024, 3, 15)
        /\ value = May13MonthFirst => ret = DateOf(2024, 5, 13)

\* "31/02/2024" has been parsed, to Invalid
C6_Witness ==
    /\ pc = "parseTransactionDate"
    /\ value = Feb31
    /\ ret = Null

\* the calendar day whole days after 1899-12-30 (the time of day dropped)
SerialDay(v) == CivilFromDays(DaysFromCivil(1899, 12, 30) + v.m \div Pow10(v.e))

\* C7: a numeric serial n gives the calendar date n days after 1899-12-30 if and only
\* if that date's year is in 2000..2100, and Invalid otherwise (0 and negative n
\* included); serial 45000 is a date in 2023.
C7_SerialIsDaysAfterEpoch ==
    (pc = "parseTransactionDate" /\ value.k = "num") =>
        /\ SerialDay(value).y \in 2000..2100 => ret = SerialDay(value)
        /\ SerialDay(value).y \notin 2000..2100 => ret = Null
        /\ value.m <= 0 => ret = Null
        /\ value = Num(45000, 0) => (ret # Null /\ ret.y = 2023)

\* C8: every date parseTransactionDate returns, by whichever step, has its year in
\* 2000..2100; an input that fails every step gives Invalid (null), not an error.
C8_YearGate ==
    pc = "parseTransactionDate" =>
        \/ ret = Null
        \/ (ret.k = "date" /\ ret.y \in 2000..2100 /\ ret.mo \in 1..12 /\ ret.d \in 1..31)

\* the generic parse read an ISO string of 1999 and the gate turned it down
C8_Witness ==
    /\ pc = "parseTransactionDate"
    /\ value = Str(<<"1", "9", "9", "9", "-", "1", "2", "-", "1", "5">>)
    /\ ret = Null

(***************************************************************************)
(* Inputs of extractTransactions                                           *)
(***************************************************************************)
Shekel == Str(<<"Shekel">>)
Dollar == Str(<<"$">>)
Shop == Str(<<"S", "h", "o", "p">>)
Cafe == Str(<<"C", "a", "f", "e">>)
March15 == Str(<<"1", "5", "/", "0", "3", "/", "2", "0", "2", "4">>)

\* a data row in the columns of FORMAT_A
RowA(date, merchant, amount, currency, details) ==
    <<date, merchant, amount, currency, amount, currency, EmptyString, details>>
\* a data row in the columns of FORMAT_B
RowB(date, merchant, amount, currency, notes) ==
    <<date, merchant, Str(<<"f", "o", "o", "d">>), EmptyString, EmptyString, amount, currency,
      amount, currency, EmptyString, notes>>

PlainRow == RowA(March15, Shop, Str(<<"1", "0", "0", ".", "5", "0">>), Shekel, EmptyString)
\* serial date, padded merchant, dollars, standing order
DollarRow == RowA(Num(45000, 0), Str(<<" ", "S", "h", "o", "p", " ">>), Num(10, 0), Dollar,
                  Str(KwStandingOrder))
\* a date nothing parses, a negative amount, no currency
RefundRow == RowA(Str(<<"a", "b", "c">>), Cafe, Num(-30, 0), EmptyString, EmptyString)
\* empty date, merchant 'סה"כ', numeric amount
TotalRow == RowA(EmptyString, Str(<<"Samekh", "He", "\"", "Kaf">>), Num(120, 0), EmptyString,
                 EmptyString)
\* blank date beside a merchant and an amount
NoDateRow ==
    RowA(Str(<<" ">>), Shop, Str(<<"1", "0", "0", ".", "5", "0">>), Shekel, EmptyString)
\* the plain row with a date no step parses
GarbageDateRow ==
    RowA(Str(<<"a", "b", "c">>), Shop, Str(<<"1", "0", "0", ".", "5", "0">>), Shekel,
         EmptyString)
\* a merchant whose name holds a keyword in capitals
TotalWineRow == RowA(March15, Str(<<"T", "o", "t", "a", "l", " ", "W", "i", "n", "e">>),
                     Num(5, 0), Shekel, EmptyString)
\* 'סך הכל' in the date column
DateKeywordRow ==
    RowA(Str(<<"Samekh", "KafSofit", " ", "He", "Kaf", "Lamed">>), Shop, Num(5, 0), Shekel,
         EmptyString)
BadAmountRow == RowA(March15, Shop, Str(<<"x">>), Shekel, EmptyString)
BlankMerchantRow == RowA(March15, Str(<<" ">>), Num(5, 0), Shekel, EmptyString)
\* a number in the additional-details column
NumericDetailsRow == RowA(March15, Cafe, Num(5, 0), Shekel, Num(7, 0))
StandingOrderRowB == RowB(March15, Cafe, Num(20, 0), Shekel, Str(KwStandingOrder))
ExtractRowKinds ==
    {PlainRow, DollarRow, RefundRow, TotalRow, NoDateRow, GarbageDateRow, TotalWineRow,
     DateKeywordRow,
     BadAmountRow, BlankMerchantRow, NumericDetailsRow, StandingOrderRowB, HeaderRowA, EmptyRow}

\* what stands before the data: nothing, empty rows up to the default data start, the
\* FORMAT_A header, a title and the FORMAT_B header
ExtractLeads ==
    {<<>>, Repeat(EmptyRow, DefaultHeaderRow + 1), <<HeaderRowA>>, <<TitleRow, HeaderRowB>>}

MaxBodyRows == 2

ExtractInputs == {lead \o body : lead \in ExtractLeads, body \in SeqsUpTo(ExtractRowKinds, MaxBodyRows)}

InitExtract ==
    /\ data \in ExtractInputs
    /\ value = Undefined
    /\ tzShift = 0
    /\ exchangeRates \in {NoRates, FallbackRates}
    /\ pc = "ready"
    /\ ret = Undefined
    /\ ParserAlone

CallExtractTransactions ==
    /\ pc = "ready"
    /\ pc' = "extractTransactions"
    /\ ret' = ExtractInto(NewList(ret), ExtractTransactions(data, exchangeRates))
    /\ UNCHANGED <<data, value, tzShift, exchangeRates>>
    /\ UNCHANGED appVars

\* a second call on the same rows
CallExtractTransactionsAgain ==
    /\ pc = "extractTransactions"
    /\ pc' = "extractTransactionsAgain"
    /\ ret' = ExtractInto(NewList(ret), ExtractTransactions(data, exchangeRates))
    /\ UNCHANGED <<data, value, tzShift, exchangeRates>>
    /\ UNCHANGED appVars

NextExtract == CallExtractTransactions \/ CallExtractTransactionsAgain
SpecExtract == InitExtract /\ [][NextExtract]_vars

(***************************************************************************)
(* Claims about extractTransactions and isSummaryRow                       *)
(***************************************************************************)
Returned == pc = "extractTransactions" /\ ~ret.threw
\* the rows of data from index i on, as indices
RowsFrom(i) == {j \in 0..(Len(data) - 1) : j >= i}
SourceRows == {ret.transactions[n].srcRow : n \in 1..Len(ret.transactions)}

\* what holds of the list returned, layout being the layout detected for data
TransactionsComeFromDataRows(layout) ==
    Returned =>
        /\ \A n \in 1..Len(ret.transactions) :
              LET tx == ret.transactions[n]
                  row == At(data, tx.srcRow)
              IN  /\ tx.srcRow \in RowsFrom(layout.dataStartRow)
                  /\ tx.merchant = Trim(ToStr(At(row, layout.columns.merchant)))
                  /\ Len(tx.merchant) > 0
                  /\ tx.merchant[1] \notin WhiteSpace
                  /\ tx.merchant[Len(tx.merchant)] \notin WhiteSpace
                  /\ tx.merchant \notin {KwMerchantName, KwMerchantNameThe}
                  /\ tx.billingAmount.k = "num"
                  /\ tx.billingAmount = ParseAmount(At(row, layout.columns.billingAmount))
                  /\ ~IsSummaryRow(row, layout)
        /\ \A n1, n2 \in 1..Len(ret.transactions) :
              n1 < n2 => ret.transactions[n1].srcRow < ret.transactions[n2].srcRow

\* C9: every transaction returned by extractTransactions comes from a row at index >=
\* dataStartRow of the detected layout, has a non-empty trimmed merchant that is not a
\* header label, a billingAmount that is a number, and a row for which isSummaryRow is
\* false; transactions keep the order of their rows, at most one per row.
C9_TransactionsComeFromDataRows == TransactionsComeFromDataRows(DetectFormat(data))

\* the row of a padded merchant and the refund row after it gave two transactions, in
\* that order, the first with the merchant trimmed
C9_Witness ==
    /\ Returned
    /\ Len(ret.transactions) = 2
    /\ At(data, ret.transactions[1].srcRow) = DollarRow
    /\ ret.transactions[1].merchant = Shop.s
    /\ At(data, ret.transactions[2].srcRow) = RefundRow
    /\ ret.transactions[2].isRefund

\* the text of a cell as the classifier reads it: empty for a missing, empty or zero
\* cell, otherwise its string form without the blanks around it
CellText(row, col) ==
    LET v == At(row, col)
    IN  IF v.k \in {"undef", "null", "nan"} \/ v = EmptyString \/ v = Num(0, 0) THEN <<>>
        ELSE Trim(ToStr(v))
ContainsKeyword(text) ==
    \E kw \in SummaryKeywords :
        \E i \in 1..(Len(text) - Len(kw) + 1) :
            \A j \in 1..Len(kw) : ToLowerChar(text[i + j - 1]) = kw[j]
\* the condition C10 states
SummaryCondition(row, layout) ==
    LET merchantText == CellText(row, layout.columns.merchant)
        dateText == CellText(row, layout.columns.date)
    IN  /\ Len(row) > 0
        /\ \/ ContainsKeyword(merchantText)
           \/ ContainsKeyword(dateText)
           \/ /\ dateText = <<>>
              /\ ParseAmount(At(row, layout.columns.billingAmount)).k = "num"
              /\ merchantText # <<>>

\* what holds of the classifier and of the list returned under the detected layout
SummaryRowsExcluded(layout) ==
    pc = "extractTransactions" =>
        /\ \A i \in RowsFrom(0) :
              IsSummaryRow(At(data, i), layout) <=> SummaryCondition(At(data, i), layout)
        /\ ~ret.threw =>
              \A i \in RowsFrom(layout.dataStartRow) :
                  (SummaryCondition(At(data, i), layout) \/ At(data, i) = TotalRow) =>
                      i \notin SourceRows

\* C10: isSummaryRow(row, layout) is true exactly when the row is non-empty and its
\* merchant cell or its date cell, lower-cased, contains a summary keyword, or its date
\* cell is empty while the billing amount parses and the merchant cell is non-empty;
\* every such row at or after dataStartRow is absent from the extracted list (as is the
\* row with empty date, total-label merchant and numeric amount).
C10_SummaryRowsExcluded == SummaryRowsExcluded(DetectFormat(data))

\* the row with empty date, merchant 'סה"כ' and amount 120 stood among the data rows
\* before a plain row, and only the plain row was extracted
C10_Witness ==
    /\ Returned
    /\ Len(ret.transactions) = 1
    /\ At(data, ret.transactions[1].srcRow) = PlainRow
    /\ At(data, ret.transactions[1].srcRow - 1) = TotalRow
    /\ ret.transactions[1].srcRow - 1 >= DetectFormat(data).dataStartRow

\* rows r1 and r2 differ in the cell of column col and in nothing else
DifferOnlyIn(r1, r2, col) ==
    /\ Len(r1) = Len(r2)
    /\ col < Len(r1)
    /\ At(r1, col) # At(r2, col)
    /\ \A c \in 0..(Len(r1) - 1) : c # col => At(r1, c) = At(r2, c)
Parseable(cell) == \A d \in ParseTransactionDate(cell, 0) : d # Null
Unparseable(cell) == ParseTransactionDate(cell, 0) = {Null}
\* data rows i and j differ only in the date cell, parseable in i and unparseable in j
DatePair(i, j, layout) ==
    /\ i \in RowsFrom(layout.dataStartRow)
    /\ j \in RowsFrom(layout.dataStartRow)
    /\ DifferOnlyIn(At(data, i), At(data, j), layout.columns.date)
    /\ Parseable(At(At(data, i), layout.columns.date))
    /\ Unparseable(At(At(data, j), layout.columns.date))
RawDates(layout) ==
    \A n \in 1..Len(ret.transactions) :
        ret.transactions[n].date = At(At(data, ret.transactions[n].srcRow), layout.columns.date)

\* the statement of C11 as the specification words it
DateNeverDropsRow(layout) ==
    Returned =>
        /\ \A i, j \in RowsFrom(0) :
              DatePair(i, j, layout) => (i \in SourceRows <=> j \in SourceRows)
        /\ RawDates(layout)

\* C11 as stated: of two data rows that differ only in the date cell, one parseable and
\* one not (empty, blank or garbage), both are extracted or neither, and the date field
\* is the raw cell. Refuted: the row with a blank date is a summary row and is dropped
\* while its twin with a date is extracted.
C11_DateNeverDropsRow == DateNeverDropsRow(DetectFormat(data))

DateTextKeepsRow(layout) ==
    Returned =>
        /\ \A i, j \in RowsFrom(0) :
              DatePair(i, j, layout) =>
                  LET text == CellText(At(data, j), layout.columns.date)
                  IN  IF text = <<>> THEN j \notin SourceRows
                      ELSE IF ContainsKeyword(text) THEN j \notin SourceRows
                      ELSE i \in SourceRows <=> j \in SourceRows
        /\ RawDates(layout)

\* C11 amended: of two data rows that differ only in the date cell, one parseable and one
\* not, both are extracted or neither when the unparseable date cell holds text that is
\* not blank and contains no summary keyword; a row whose date cell is empty or blank,
\* or holds a summary keyword, is not extracted. The date field of every transaction is
\* the raw cell of its row.
C11_DateTextKeepsRow == DateTextKeepsRow(DetectFormat(data))

\* the plain row and its twin with the date 'abc' both gave a transaction, the second
\* with the date as it stood in the cell
C11_Witness ==
    /\ Returned
    /\ Len(ret.transactions) = 2
    /\ At(data, ret.transactions[1].srcRow) = PlainRow
    /\ At(data, ret.transactions[2].srcRow) = GarbageDateRow
    /\ ret.transactions[2].date = Str(<<"a", "b", "c">>)

C27_RowFaultsContained ==
    (pc = "extractTransactions" /\ exchangeRates # NoRates) =>
        /\ ~ret.threw
        /\ \A i \in RowsFrom(DetectFormat(data).dataStartRow) :
              ExtractRow(At(data, i), i, DetectFormat(data), exchangeRates).kind = "push"
                  => \E n \in 1..Len(ret.transactions) : ret.transactions[n].srcRow = i

(***************************************************************************)
(* Inputs of convertToILS                                                  *)
(***************************************************************************)
\* a table built from a response that quotes the dollar only: 1 / undefined is NaN
DollarOnlyRates ==
    [k |-> "rates", USD |-> Num(370, 2), EUR |-> NaN, GBP |-> NaN, date |-> "11/3/2026"]
\* a table built from a response that quotes all three
LiveRates ==
    [k |-> "rates", USD |-> Num(365, 2), EUR |-> Num(4, 0), GBP |-> Num(4625, 3),
     date |-> "11/3/2026"]
RateTables == {NoRates, FallbackRates, DollarOnlyRates, LiveRates}

ConvertAmounts == {Num(10, 0), Num(-30, 0), Num(10050, 2), Num(0, 0), Num(5, 1)}
ForeignCurrencies ==
    { <<"$">>, <<"U", "S", "D">>, <<"Euro">>, <<"E", "U", "R">>, <<"Pound">>, <<"G", "B", "P">> }
HomeCurrencies == { <<"Shekel">>, <<"I", "L", "S">> }
\* 'JPY', 'usd', blank, '$' and the shekel sign with blanks around them
OtherCurrencies ==
    { <<>>, <<"J", "P", "Y">>, <<"u", "s", "d">>, <<" ">>, <<" ", "$", " ">>,
      <<" ", "Shekel">> } \cup InheritedKeys
ConvertCurrencies == ForeignCurrencies \cup HomeCurrencies \cup OtherCurrencies

InitConvert ==
    /\ data = <<>>
    /\ value \in [amount : ConvertAmounts, currency : ConvertCurrencies]
    /\ tzShift = 0
    /\ exchangeRates \in RateTables
    /\ pc = "ready"
    /\ ret = Undefined
    /\ ParserAlone

CallConvertToILS ==
    /\ pc = "ready"
    /\ pc' = "convertToILS"
    /\ ret' = ConvertToILS(value.amount, value.currency, exchangeRates)
    /\ UNCHANGED <<data, value, tzShift, exchangeRates>>
    /\ UNCHANGED appVars

NextConvert == CallConvertToILS
SpecConvert == InitConvert /\ [][NextConvert]_vars

(***************************************************************************)
(* Claims about convertToILS                                               *)
(***************************************************************************)
\* the code the six recognised currency strings stand for
CodeOfCurrency(c) ==
    IF c \in {<<"$">>, <<"U", "S", "D">>} THEN "USD"
    ELSE IF c \in {<<"Euro">>, <<"E", "U", "R">>} THEN "EUR"
    ELSE "GBP"
\* the rate the table holds for a code
HeldRate(table, code) ==
    IF code = "USD" THEN table.USD ELSE IF code = "EUR" THEN table.EUR ELSE table.GBP
HoldsRate(table, code) ==
    /\ table # NoRates
    /\ HeldRate(table, code).k = "num"
    /\ HeldRate(table, code).m # 0
Product(a, b) == Num(a.m * b.m, a.e + b.e)

\* C12: amountInILS = billingAmount * rate[code] when the trimmed currency is one of
\* '$', 'USD', '€', 'EUR', '£', 'GBP' and the table holds a rate for its code, and the
\* amount unchanged when the currency is empty, the home currency or unrecognised; with
\* the dollar at 3.70, amount 10 and currency '$' the result is 37.
C12_ConversionByRate ==
    (pc = "convertToILS" /\ ~ret.threw) =>
        LET currency == Trim(value.currency)
        IN  /\ (currency \in ForeignCurrencies /\ HoldsRate(exchangeRates, CodeOfCurrency(currency)))
                => ret.v = Product(value.amount, HeldRate(exchangeRates, CodeOfCurrency(currency)))
            /\ currency \notin ForeignCurrencies => ret.v = value.amount
            /\ (currency = <<"$">> /\ value.amount = Num(10, 0) /\ exchangeRates.USD = Num(370, 2))
                => ret.v = Num(37, 0)

\* 10 euros under the fallback table became 40.5
C12_Witness ==
    /\ pc = "convertToILS"
    /\ ~ret.threw
    /\ value = [amount |-> Num(10, 0), currency |-> <<"Euro">>]
    /\ exchangeRates = FallbackRates
    /\ ret.v = Num(405, 1)

\* C13 as stated: in every parser state, the one before the rate fetch completes
\* included, convertToILS returns a number and raises no error, and it passes the
\* amount through when the currency has no code or the code has no rate. Refuted: with
\* the rate table still unset, a recognised foreign currency raises a TypeError.
C13_ConversionNeverThrows ==
    pc = "convertToILS" =>
        /\ ~ret.threw
        /\ ret.v.k = "num"
        /\ (Trim(value.currency) \notin ForeignCurrencies
              \/ ~HoldsRate(exchangeRates, CodeOfCurrency(Trim(value.currency))))
            => ret.v = value.amount

(***************************************************************************)
(* XLSXParser.fetchExchangeRates, parseFile, parseFiles, getAllTransactions *)
(* and the CreditAnalyzerApp handlers that call them                       *)
(*                                                                         *)
(* A File is [name, size, content]; content.kind tells what reading it     *)
(* gives: "sheet" (rows decoded by XLSX), "corrupt" (XLSX.read throws),    *)
(* "unreadable" (the FileReader reports an error).                         *)
(* log records, in order: "rates" (the rate table is assigned), "read"     *)
(* (the read of a file starts), "extract" (extractTransactions is called,  *)
(* built telling whether the rate table was set), "record" (the result of  *)
(* a file is pushed).                                                      *)
(***************************************************************************)
\* new Date().toLocaleDateString('en-US') on the day of the session
Today == "11/3/2026"

\* 1 / v for the rates a body quotes (exact to four decimals); 1 / undefined is NaN
Reciprocal(v) == IF v.k # "num" THEN NaN ELSE Num(Pow10(v.e + 4) \div v.m, 4)

\* reading data.rates.USD throws a TypeError when data or data.rates is null or undefined
BodyThrows(body) == body = Null \/ body.rates = Undefined

\* the table assigned at lines 19-24
RatesFrom(body) ==
    [k |-> "rates", USD |-> Reciprocal(body.rates.USD), EUR |-> Reciprocal(body.rates.EUR),
     GBP |-> Reciprocal(body.rates.GBP), date |-> Today]

Event(e, file) == [e |-> e, file |-> file, built |-> exchangeRates # NoRates]

\* the catch block of fetchExchangeRates (lines 27-36)
UseFallback ==
    /\ exchangeRates' = FallbackRates
    /\ fetch' = "done"
    /\ log' = Append(log, Event("rates", 0))

\* the request fails: fetch() rejects
FetchRejects ==
    /\ fetch = "awaitFetch"
    /\ UseFallback
    /\ UNCHANGED <<data, value, tzShift, pc, ret, response, files, results, reading>>
    /\ UNCHANGED pageVars

\* the request is answered: fetch() resolves, response.json() starts
FetchResolves ==
    /\ fetch = "awaitFetch"
    /\ fetch' = "awaitJson"
    /\ UNCHANGED <<data, value, tzShift, exchangeRates, pc, ret, response, files, results,
                   reading, log>>
    /\ UNCHANGED pageVars

\* the body is not JSON: response.json() rejects
JsonRejects ==
    /\ fetch = "awaitJson"
    /\ UseFallback
    /\ UNCHANGED <<data, value, tzShift, pc, ret, response, files, results, reading>>
    /\ UNCHANGED pageVars

\* response.json() resolves with body: lines 19-26, or the catch block when they throw
JsonResolves(body) ==
    /\ fetch = "awaitJson"
    /\ response' = body
    /\ IF BodyThrows(body) THEN UseFallback
       ELSE /\ exchangeRates' = RatesFrom(body)
            /\ fetch' = "done"
            /\ log' = Append(log, Event("rates", 0))
    /\ UNCHANGED <<data, value, tzShift, pc, ret, files, results, reading>>
    /\ UNCHANGED pageVars

\* file.name.toLowerCase().endsWith('.xlsx')
IsXlsxName(name) ==
    /\ Len(name) >= 5
    /\ ToLowerCase(SubSeq(name, Len(name) - 4, Len(name))) = <<".", "x", "l", "s", "x">>

RECURSIVE AddNewFiles(_, _)
\* lines 180-186: each file of xlsxFiles not yet selected (same name and size) is pushed
AddNewFiles(selected, xlsxFiles) ==
    IF Len(xlsxFiles) = 0 THEN selected
    ELSE LET file == Head(xlsxFiles)
             exists == \E n \in 1..Len(selected) :
                          selected[n].name = file.name /\ selected[n].size = file.size
         IN  AddNewFiles(IF exists THEN selected ELSE Append(selected, file), Tail(xlsxFiles))

\* error.message of the rejection of parseFile
FailedToRead(file) == [text |-> "Failed to read ", fileName |-> file.name, cause |-> ""]
FailedToParse(file, cause) == [text |-> "Failed to parse ", fileName |-> file.name, cause |-> cause]

\* mutant: the result reports the default layout whatever was detected
SettledDefaultFormat(file, extracted, format) ==
    IF file.content.kind # "sheet" \/ extracted.threw
    THEN [rejected |-> TRUE, message |-> FailedToParse(file, "")]
    ELSE [rejected |-> FALSE,
          result |-> [fileName |-> file.name,
                      transactions |-> extracted.transactions,
                      count |-> Len(extracted.transactions),
                      format |-> DefaultFormat]]

\* what the promise of parseFile(file) settles to, extracted and format being what
\* extractTransactions and detectFormat give for the rows of the file
Settled(file, extracted, format) ==
    IF file.content.kind = "unreadable"
    THEN [rejected |-> TRUE, message |-> FailedToRead(file)]
    ELSE IF file.content.kind = "corrupt"
    THEN [rejected |-> TRUE, message |-> FailedToParse(file, "XLSX.read")]
    ELSE IF extracted.threw
    THEN [rejected |-> TRUE, message |-> FailedToParse(file, "TypeError")]
    ELSE [rejected |-> FALSE,
          result |-> [fileName |-> file.name,
                      transactions |-> extracted.transactions,
                      count |-> Len(extracted.transactions),
                      format |-> format]]

\* what the promise of parseFile(file) settles to under the rate table rates
ParseFile(file, rates) ==
    Settled(file, ExtractTransactions(file.content.rows, rates), DetectFormat(file.content.rows))

\* the object pushed by the catch block of parseFiles (lines 345-349)
ErrorResult(file, message) == [fileName |-> file.name, error |-> message, transactions |-> <<>>]

\* mutant: a result is put in front of the earlier ones
PushResultFront(earlier, result) == <<result>> \o earlier

\* results.push(result) at line 342
PushResult(earlier, result) == Append(earlier, result)

\* mutant: a failing file discards the results recorded before it
AfterFailureAbort(earlier, file, message) == <<ErrorResult(file, message)>>

\* the catch block of parseFiles
AfterFailure(earlier, file, message) == Append(earlier, ErrorResult(file, message))

RECURSIVE GetAllTransactions(_)
\* getAllTransactions(parseResults)
GetAllTransactions(parseResults) ==
    IF Len(parseResults) = 0 THEN <<>>
    ELSE Head(parseResults).transactions \o GetAllTransactions(Tail(parseResults))

\* handleFileSelection(batch) with nothing selected yet: the .xlsx files are kept, new
\* ones are pushed, analyzeFiles calls parseFiles, which starts reading the first file
HandleFileSelection(batch) ==
    /\ pc = "ready"
    /\ fetch # "none"
    /\ LET xlsxFiles == SelectSeq(batch, LAMBDA file : IsXlsxName(file.name))
       IN  /\ Len(xlsxFiles) > 0
           /\ files' = AddNewFiles(files, xlsxFiles)
    /\ results' = <<>>
    /\ reading' = 1
    /\ pc' = "parseFile"
    /\ log' = Append(log, Event("read", 1))
    /\ UNCHANGED <<data, value, tzShift, exchangeRates, ret, fetch, response>>
    /\ UNCHANGED pageVars

\* the loop of parseFiles after the promise of file `reading` has settled: the next
\* file is read, or parseFiles returns and analyzeFiles merges the transactions
ContinueParseFiles(recorded) ==
    /\ results' = recorded
    /\ IF reading < Len(files)
       THEN /\ reading' = reading + 1
            /\ pc' = "parseFile"
            /\ ret' = ret
       ELSE /\ reading' = 0
            /\ pc' = "done"
            /\ ret' = GetAllTransactions(recorded)

\* the catch block or the push of parseFiles for the settled promise, then its loop
Record(file, settled, events) ==
    /\ ContinueParseFiles(IF settled.rejected
                          THEN AfterFailure(results, file, settled.message)
                          ELSE PushResult(results, settled.result))
    /\ log' = log \o events \o <<Event("record", reading)>>
                  \o (IF reading < Len(files) THEN <<Event("read", reading + 1)>> ELSE <<>>)

\* reader.onload of the file being read (lines 74-106), then the loop of parseFiles
ReaderLoads ==
    /\ pc = "parseFile"
    /\ files[reading].content.kind # "unreadable"
    /\ Record(files[reading], ParseFile(files[reading], exchangeRates),
              IF files[reading].content.kind = "sheet"
              THEN <<Event("extract", reading)>> ELSE <<>>)
    /\ UNCHANGED <<data, value, tzShift, exchangeRates, fetch, response, files>>
    /\ UNCHANGED pageVars

\* reader.onerror of the file being read (lines 108-110), then the loop of parseFiles
ReaderFails ==
    /\ pc = "parseFile"
    /\ files[reading].content.kind = "unreadable"
    /\ Record(files[reading], Settled(files[reading], Undefined, Undefined), <<>>)
    /\ UNCHANGED <<data, value, tzShift, exchangeRates, fetch, response, files>>
    /\ UNCHANGED pageVars

(***************************************************************************)
(* Inputs of the session                                                   *)
(***************************************************************************)
Quoted(usd, eur, gbp) == [rates |-> [USD |-> usd, EUR |-> eur, GBP |-> gbp]]
\* a body quoting the three currencies: 0.25, 0.2 and 0.16 per shekel
QuotedBody == Quoted(Num(25, 2), Num(2, 1), Num(16, 2))
\* a body quoting the dollar only
DollarBody == Quoted(Num(25, 2), Undefined, Undefined)
\* a body without rates, as an error answer has
ErrorBody == [rates |-> Undefined]
ResponseBodies == {QuotedBody, DollarBody, ErrorBody, Null}

Sheet(rows) == [kind |-> "sheet", rows |-> rows]
NoSheet(kind) == [kind |-> kind, rows |-> <<>>]
FileName(letter, extension) == <<letter, ".">> \o extension
XlsxExtension == <<"x", "l", "s", "x">>

PlainFile ==
    [name |-> FileName("a", XlsxExtension), size |-> 3,
     content |-> Sheet(<<HeaderRowA, PlainRow, RefundRow>>)]
\* a sheet with a dollar row: extraction needs the rate table
DollarFile ==
    [name |-> FileName("b", <<"X", "L", "S", "X">>), size |-> 2,
     content |-> Sheet(<<HeaderRowA, DollarRow>>)]
FormatBFile ==
    [name |-> FileName("c", XlsxExtension), size |-> 3,
     content |-> Sheet(<<TitleRow, HeaderRowB, StandingOrderRowB>>)]
BrokenFile == [name |-> FileName("d", XlsxExtension), size |-> 1, content |-> NoSheet("corrupt")]
LockedFile == [name |-> FileName("e", XlsxExtension), size |-> 1, content |-> NoSheet("unreadable")]
TextFile == [name |-> FileName("n", <<"t", "x", "t">>), size |-> 1, content |-> NoSheet("corrupt")]
FileKinds == {PlainFile, DollarFile, FormatBFile, BrokenFile, LockedFile, TextFile}

MaxFiles == 3
FileBatches == SeqsUpTo(FileKinds, MaxFiles) \ {<<>>}

\* the page after new CreditAnalyzerApp(): the rate request is in flight, nothing selected
InitApp ==
    /\ data = <<>>
    /\ value = Undefined
    /\ tzShift = 0
    /\ exchangeRates = NoRates
    /\ pc = "ready"
    /\ ret = <<>>
    /\ fetch = "awaitFetch"
    /\ response = Undefined
    /\ files = <<>>
    /\ results = <<>>
    /\ reading = 0
    /\ log = <<>>
    /\ page = <<>>
    /\ runs = <<>>
    /\ hist = <<>>

NextFetch == FetchRejects \/ FetchResolves \/ JsonRejects \/ \E body \in ResponseBodies : JsonResolves(body)
NextApp ==
    \/ NextFetch
    \/ \E batch \in FileBatches : HandleFileSelection(batch)
    \/ ReaderLoads
    \/ ReaderFails
SpecApp == InitApp /\ [][NextApp]_vars
\* the browser settles the request and the decoding of its body
SpecAppFair == SpecApp /\ WF_vars(NextFetch)

(***************************************************************************)
(* Claims about the rate fetch and parseFiles                              *)
(***************************************************************************)
\* the places of the log where event e stands (for file, when file > 0)
Places(e, file) == {n \in 1..Len(log) : log[n].e = e /\ (file = 0 \/ log[n].file = file)}

\* C14 as stated: in every interleaving of the rate fetch with file selection, the rate
\* table has been built before the first extractTransactions call starts and is not
\* written while or after an extraction runs. Refuted: nothing makes the analysis wait
\* for the fetch; a file selected while the request is pending is extracted under the
\* unset table, which is written afterwards.
C14_RatesBuiltBeforeExtraction ==
    \A n \in Places("extract", 0) :
        /\ \E m \in Places("rates", 0) : m < n
        /\ \A m \in Places("rates", 0) : m < n

\* the fixed table of lines 30-35
FixedTable == [k |-> "rates", USD |-> Num(370, 2), EUR |-> Num(405, 2), GBP |-> Num(470, 2),
               date |-> "Fixed Rate"]
\* the table entry is the multiplier of the rate the body quotes: their product is 1
LiveMultiplier(entry, quoted) == IF quoted.k = "num" THEN Product(entry, quoted) = Num(1, 0) ELSE entry = NaN
TableAfterFetch ==
    /\ exchangeRates # Null
    /\ IF response # Undefined /\ response # Null /\ response.rates # Undefined
       THEN /\ LiveMultiplier(exchangeRates.USD, response.rates.USD)
            /\ LiveMultiplier(exchangeRates.EUR, response.rates.EUR)
            /\ LiveMultiplier(exchangeRates.GBP, response.rates.GBP)
            /\ exchangeRates.date # "Fixed Rate"
       ELSE exchangeRates = FixedTable

Fails(n) ==
    \/ files[n].content.kind # "sheet"
    \/ \E m \in Places("extract", n) :
          ExtractTransactions(files[n].content.rows,
                              IF log[m].built THEN exchangeRates ELSE NoRates).threw
\* the transactions file n yields when parsed alone
Alone(n) ==
    ExtractTransactions(files[n].content.rows,
                        IF \E m \in Places("extract", n) : log[m].built
                        THEN exchangeRates ELSE NoRates).transactions
RECURSIVE Merged(_)
\* the transactions of files 1..n that do not fail, in file order
Merged(n) ==
    IF n = 0 THEN <<>> ELSE Merged(n - 1) \o (IF Fails(n) THEN <<>> ELSE Alone(n))

\* C17: when parseFiles returns for a batch of N files, the result list has N entries;
\* the entry of a file that fails to read or parse is {fileName, error, transactions:
\* []}, the entry of every other file holds the transactions the file yields alone, and
\* getAllTransactions holds the transactions of all the files that did not fail.
C17_FailureIsolation ==
    pc = "done" =>
        /\ Len(results) = Len(files)
        /\ \A n \in 1..Len(files) :
              /\ results[n].fileName = files[n].name
              /\ IF Fails(n)
                 THEN /\ DOMAIN results[n] = {"fileName", "error", "transactions"}
                      /\ results[n].transactions = <<>>
                      /\ results[n].error.fileName = files[n].name
                 ELSE /\ "error" \notin DOMAIN results[n]
                      /\ results[n].transactions = Alone(n)
        /\ ret = Merged(Len(files))

\* a corrupt file stood between two sheets: three entries, the middle one an error, and
\* the merged list holds the two transactions of the first and the one of the third
C17_Witness ==
    /\ pc = "done"
    /\ Len(files) = 3
    /\ files[1] = PlainFile /\ files[2] = BrokenFile /\ files[3] = FormatBFile
    /\ "error" \in DOMAIN results[2]
    /\ Len(results[1].transactions) = 2
    /\ Len(results[3].transactions) = 1
    /\ Len(ret) = 3

\* C18: within one parseFiles call the read of file i + 1 starts only after the result
\* of file i has been recorded, each file is read once, results[i] belongs to files[i],
\* and the merged list is in file order.
C18_SequentialFiles ==
    /\ \A n \in 1..Len(files) :
          /\ Cardinality(Places("read", n)) <= 1
          /\ Cardinality(Places("record", n)) <= 1
          /\ \A r \in Places("record", n) : \E a \in Places("read", n) : a < r
          /\ \A a \in Places("read", n + 1) : \E r \in Places("record", n) : r < a
    /\ Cardinality(Places("read", 0)) - Cardinality(Places("record", 0)) \in {0, 1}
    /\ Len(results) = Cardinality(Places("record", 0))
    /\ \A n \in 1..Len(results) : results[n].fileName = files[n].name
    /\ pc = "done" =>
          /\ Len(results) = Len(files)
          /\ ret = Merged(Len(files))

\* the second of three files is being read after the first was recorded
C18_Witness ==
    /\ pc = "parseFile"
    /\ Len(files) = 3
    /\ reading = 2
    /\ Len(results) = 1
    /\ results[1].fileName = files[1].name
    /\ Places("read", 3) = {}

(***************************************************************************)
(* Inputs of parseFile                                                     *)
(***************************************************************************)
\* a file of each content: the sheets given to extractTransactions, a file XLSX cannot
\* decode and a file the reader cannot read
FileOf(content) == [name |-> FileName("a", XlsxExtension), size |-> 1, content |-> content]
ParseFileInputs ==
    {FileOf(Sheet(rows)) : rows \in ExtractInputs}
        \cup {FileOf(NoSheet("corrupt")), FileOf(NoSheet("unreadable"))}

InitParseFile ==
    /\ data = <<>>
    /\ value \in ParseFileInputs
    /\ tzShift = 0
    /\ exchangeRates \in {NoRates, FallbackRates}
    /\ pc = "ready"
    /\ ret = Undefined
    /\ ParserAlone

\* parseFile(value) until its promise settles: reader.onerror, or reader.onload
CallParseFile ==
    /\ pc = "ready"
    /\ pc' = "parseFile"
    /\ ret' = IF value.content.kind = "unreadable" THEN Settled(value, Undefined, Undefined)
              ELSE ParseFile(value, exchangeRates)
    /\ UNCHANGED <<data, value, tzShift, exchangeRates>>
    /\ UNCHANGED appVars

NextParseFile == CallParseFile
SpecParseFile == InitParseFile /\ [][NextParseFile]_vars

(***************************************************************************)
(* Claims about parseFile                                                  *)
(***************************************************************************)
Resolved == pc = "parseFile" /\ ~ret.rejected

\* the text of the column that holds the details of a row under a layout (additional
\* details in FORMAT_A, notes in FORMAT_B), empty when the cell holds no text
DetailsText(row, layout) ==
    LET col == IF layout.columns.additionalDetails # NoColumn
               THEN layout.columns.additionalDetails ELSE layout.columns.notes
    IN  IF At(row, col).k = "str" THEN At(row, col).s ELSE <<>>

\* the fields of a transaction say what result and row say: the layout's id, a negative
\* billing amount, the standing-order marker in the details
Provenance(tx, row, result) ==
    /\ tx.sourceFormat = result.format.type
    /\ tx.isRefund <=> ParseAmount(At(row, result.format.columns.billingAmount)).m < 0
    /\ tx.isRecurring <=>
           \E i \in 0..(Len(DetailsText(row, result.format)) - Len(KwStandingOrder)) :
               SubSeq(DetailsText(row, result.format), i + 1, i + Len(KwStandingOrder))
                   = KwStandingOrder

\* C25: for every successful file result count is the number of its transactions, the
\* format metadata is the layout detected for the rows of the file, every transaction's
\* sourceFormat is the id of that layout, isRefund is true exactly when billingAmount < 0
\* and isRecurring exactly when the notes/details text contains the standing-order marker.
C25_ProvenanceAndDerivedFields ==
    Resolved =>
        /\ ret.result.count = Len(ret.result.transactions)
        /\ ret.result.format = DetectFormat(value.content.rows)
        /\ \A n \in 1..Len(ret.result.transactions) :
              Provenance(ret.result.transactions[n],
                         At(value.content.rows, ret.result.transactions[n].srcRow),
                         ret.result)

\* a file with a detected header, a standing order and a refund has been parsed
C25_Witness ==
    /\ Resolved
    /\ ret.result.format.name = "Original Format"
    /\ ret.result.count = 2
    /\ ret.result.transactions[1].isRecurring
    /\ ~ret.result.transactions[1].isRefund
    /\ ret.result.transactions[2].isRefund
    /\ ~ret.result.transactions[2].isRecurring

(***************************************************************************)
(* CreditAnalyzerApp.aggregateByMerchant                                   *)
(*                                                                         *)
(* A Map is modelled by the sequence of its entries [merchant, amount] in  *)
(* insertion order. Sums are taken in exact decimals.                      *)
(***************************************************************************)
\* a + b
Plus(a, b) ==
    IF a.e >= b.e THEN Num(a.m + b.m * Pow10(a.e - b.e), a.e)
    ELSE Num(a.m * Pow10(b.e - a.e) + b.m, b.e)
\* a < b
Less(a, b) ==
    IF a.e >= b.e THEN a.m < b.m * Pow10(a.e - b.e) ELSE a.m * Pow10(b.e - a.e) < b.m

\* the slice of the sorted merchants that is shown one by one (line 328)
TopN == 100
\* 'Other'
OtherLabel == <<"O", "t", "h", "e", "r">>

\* lines 311-318 for one transaction: the merchant's total grows, or a new entry is set
SetEntry(merchantMap, merchant, amount) ==
    IF \E n \in 1..Len(merchantMap) : merchantMap[n].merchant = merchant
    THEN LET n == CHOOSE n \in 1..Len(merchantMap) : merchantMap[n].merchant = merchant
         IN  [merchantMap EXCEPT ![n].amount = Plus(@, amount)]
    ELSE Append(merchantMap, [merchant |-> merchant, amount |-> amount])

\* TRUE; the argument is evaluated here, not where it is first used
Evaluated(v) == v = v

RECURSIVE GroupOver(_, _, _, _)
\* transactions.forEach(...) over the transactions lo..hi in turn: the first half of them,
\* then the second half
GroupOver(merchantMap, transactions, lo, hi) ==
    IF Evaluated(merchantMap) /\ lo > hi THEN merchantMap
    ELSE IF lo = hi
    THEN SetEntry(merchantMap, transactions[lo].merchant, transactions[lo].amountInILS)
    ELSE GroupOver(GroupOver(merchantMap, transactions, lo, (lo + hi) \div 2),
                   transactions, (lo + hi) \div 2 + 1, hi)

\* mutant: smaller amounts first
SortsBeforeAscending(a, b) == Less(a.amount, b.amount)

\* the comparator (a, b) => b.amount - a.amount is negative: a goes before b
SortsBefore(a, b) == Less(b.amount, a.amount)

\* item put into a sorted array after every entry it does not go before
Insert(sorted, item) ==
    LET place == Cardinality({n \in 1..Len(sorted) : ~SortsBefore(item, sorted[n])})
    IN  SubSeq(sorted, 1, place) \o <<item>> \o SubSeq(sorted, place + 1, Len(sorted))

RECURSIVE SortOver(_, _, _, _)
\* Array.prototype.sort with that comparator, stable: the items lo..hi of array put in turn
\* into sorted
SortOver(sorted, array, lo, hi) ==
    IF Evaluated(sorted) /\ lo > hi THEN sorted
    ELSE IF lo = hi THEN Insert(sorted, array[lo])
    ELSE SortOver(SortOver(sorted, array, lo, (lo + hi) \div 2), array, (lo + hi) \div 2 + 1, hi)

RECURSIVE SumOver(_, _, _, _)
\* array.reduce((sum, item) => sum + item.amount, sum) over the items lo..hi in turn
SumOver(sum, array, lo, hi) ==
    IF Evaluated(sum) /\ lo > hi THEN sum
    ELSE IF lo = hi THEN Plus(sum, array[lo].amount)
    ELSE SumOver(SumOver(sum, array, lo, (lo + hi) \div 2), array, (lo + hi) \div 2 + 1, hi)

\* mutant: the total leaves out the merchants folded into 'Other'
TotalOfShown(merchantArray) == SumOver(Num(0, 0), merchantArray, 1, Min(TopN, Len(merchantArray)))

\* line 341
TotalOf(merchantArray) == SumOver(Num(0, 0), merchantArray, 1, Len(merchantArray))

\* lines 328-337, merchantArray being sorted
Fold(merchantArray) ==
    IF Len(merchantArray) > TopN
    THEN Append(SubSeq(merchantArray, 1, TopN),
                [merchant |-> OtherLabel,
                 amount |-> SumOver(Num(0, 0), merchantArray, TopN + 1, Len(merchantArray))])
    ELSE merchantArray

\* lines 328-344, merchantArray being sorted
Report(merchantArray, transactions) ==
    [merchantData |-> Fold(merchantArray),
     totalExpenses |-> TotalOf(merchantArray),
     merchantCount |-> Len(merchantArray),
     transactionCount |-> Len(transactions)]

\* lines 322-325
Sorted(merchantArray) == SortOver(<<>>, merchantArray, 1, Len(merchantArray))

AggregateByMerchant(transactions) ==
    Report(Sorted(GroupOver(<<>>, transactions, 1, Len(transactions))), transactions)

(***************************************************************************)
(* Inputs of aggregateByMerchant                                           *)
(***************************************************************************)
Tx(merchant, amount) == [merchant |-> merchant, amountInILS |-> amount]
MerchantName(i) == <<"M">> \o NatToString(i)

\* the amount of merchant i under each pattern
PatternAmount(pattern, i) ==
    CASE pattern = "decreasing" -> Num(1000 - i, 0)
      [] pattern = "increasing" -> Num(25 * i, 1)
      [] pattern = "equal" -> Num(7, 0)
      [] OTHER -> IF i % 2 = 1 THEN Num(-i, 0) ELSE Num(i, 0)
AmountPatterns == {"decreasing", "increasing", "equal", "refunds"}
MerchantCounts == {1, 2, 99, 100, 101, 105}

\* one transaction for each of count merchants
OneEach(count, pattern) ==
    [i \in 1..count |-> Tx(MerchantName(i), PatternAmount(pattern, i))]
\* amounts 100, -30 and 50
ExampleList ==
    <<Tx(MerchantName(1), Num(100, 0)), Tx(MerchantName(2), Num(-30, 0)),
      Tx(MerchantName(1), Num(50, 0))>>
BaseLists ==
    {<<>>, ExampleList} \cup {OneEach(count, pattern) : count \in MerchantCounts, pattern \in AmountPatterns}

\* a refund at the first merchant, a merchant that differs from it in case only, and a
\* merchant whose name is the label of the fold bucket
ExtraTransactions ==
    { Tx(MerchantName(1), Num(-30, 0)), Tx(<<"m", "1">>, Num(55, 1)), Tx(OtherLabel, Num(10, 0)) }
MaxExtra == 2

AggregateInputs ==
    {base \o extra : base \in BaseLists, extra \in SeqsUpTo(ExtraTransactions, MaxExtra)}

InitAggregate ==
    /\ data = <<>>
    /\ value \in AggregateInputs
    /\ tzShift = 0
    /\ exchangeRates = FallbackRates
    /\ pc = "ready"
    /\ ret = Undefined
    /\ ParserAlone

CallAggregateByMerchant ==
    /\ pc = "ready"
    /\ pc' = "aggregateByMerchant"
    /\ ret' = AggregateByMerchant(value)
    /\ UNCHANGED <<data, value, tzShift, exchangeRates>>
    /\ UNCHANGED appVars

NextAggregate == CallAggregateByMerchant
SpecAggregate == InitAggregate /\ [][NextAggregate]_vars

(***************************************************************************)
(* Claims about aggregateByMerchant                                        *)
(***************************************************************************)
Aggregated == pc = "aggregateByMerchant"

RECURSIVE AmountsOf(_, _, _)
\* the sum of amountInILS over the transactions lo..hi of the list
AmountsOf(transactions, lo, hi) ==
    IF lo > hi THEN Num(0, 0)
    ELSE IF lo = hi THEN transactions[lo].amountInILS
    ELSE Plus(AmountsOf(transactions, lo, (lo + hi) \div 2),
              AmountsOf(transactions, (lo + hi) \div 2 + 1, hi))

RECURSIVE EntriesOf(_, _, _)
\* the sum of the amounts of the entries lo..hi of merchantData
EntriesOf(merchantData, lo, hi) ==
    IF lo > hi THEN Num(0, 0)
    ELSE IF lo = hi THEN merchantData[lo].amount
    ELSE Plus(EntriesOf(merchantData, lo, (lo + hi) \div 2),
              EntriesOf(merchantData, (lo + hi) \div 2 + 1, hi))

\* C19: totalExpenses is the sum of amountInILS over every transaction given, refunds and
\* the merchants folded into 'Other' included: amounts 100, -30 and 50 give 120; and the
\* amounts of merchantData, the 'Other' entry included, add up to totalExpenses.
C19_TotalIsSumOfAmounts ==
    Aggregated =>
        /\ ret.totalExpenses = AmountsOf(value, 1, Len(value))
        /\ EntriesOf(ret.merchantData, 1, Len(ret.merchantData)) = ret.totalExpenses
        /\ value = ExampleList => ret.totalExpenses = Num(120, 0)

\* a list with a refund and more than TopN merchants has been aggregated
C19_Witness ==
    /\ Aggregated
    /\ \E i \in 1..Len(value) : value[i].amountInILS.m < 0
    /\ Len(ret.merchantData) = TopN + 1
    /\ ret.merchantData[TopN + 1].amount # Num(0, 0)

\* the merchant strings of the list
MerchantsOf(transactions) == {transactions[i].merchant : i \in 1..Len(transactions)}

RECURSIVE GroupTotal(_, _, _, _)
\* the sum of amountInILS over the transactions lo..hi that carry exactly this merchant
GroupTotal(transactions, merchant, lo, hi) ==
    IF lo > hi THEN Num(0, 0)
    ELSE IF lo = hi
    THEN IF transactions[lo].merchant = merchant THEN transactions[lo].amountInILS ELSE Num(0, 0)
    ELSE Plus(GroupTotal(transactions, merchant, lo, (lo + hi) \div 2),
              GroupTotal(transactions, merchant, (lo + hi) \div 2 + 1, hi))

RECURSIVE TotalOfGroups(_, _)
\* the sum of the group totals of a set of merchants
TotalOfGroups(transactions, merchants) ==
    IF merchants = {} THEN Num(0, 0)
    ELSE LET m == CHOOSE m \in merchants : TRUE
         IN  Plus(GroupTotal(transactions, m, 1, Len(transactions)),
                  TotalOfGroups(transactions, merchants \ {m}))

\* merchantData of a list with M distinct merchants: the first Min(M, TopN) entries are
\* distinct merchants of the list, each with its group total, in non-increasing order;
\* nothing follows them when M <= TopN; when M > TopN one entry 'Other' follows, none of
\* the merchants left out has a larger total than the last one shown, and 'Other' holds
\* the sum of their totals
TopFolded(transactions, merchantData, M) ==
    /\ Len(merchantData) = IF M <= TopN THEN M ELSE TopN + 1
    /\ \A n \in 1..Min(M, TopN) :
          /\ merchantData[n].merchant \in MerchantsOf(transactions)
          /\ merchantData[n].amount =
                 GroupTotal(transactions, merchantData[n].merchant, 1, Len(transactions))
          /\ \A k \in 1..(n - 1) : merchantData[k].merchant # merchantData[n].merchant
          /\ n > 1 => ~Less(merchantData[n - 1].amount, merchantData[n].amount)
    /\ M > TopN =>
          /\ merchantData[TopN + 1].merchant = OtherLabel
          /\ merchantData[TopN + 1].amount =
                 TotalOfGroups(transactions,
                               MerchantsOf(transactions)
                                   \ {merchantData[n].merchant : n \in 1..TopN})
          /\ \A m \in MerchantsOf(transactions) \ {merchantData[n].merchant : n \in 1..TopN} :
                 ~Less(merchantData[TopN].amount, GroupTotal(transactions, m, 1, Len(transactions)))

\* C20: transactions are grouped by the exact merchant string and the groups ordered by
\* non-increasing total; with M <= 100 distinct merchants merchantData has M entries, all
\* of them merchants of the list; with M > 100 it has the 100 largest followed by one
\* 'Other' entry holding the sum of the totals ranked 101..M; merchantCount is M. 105
\* merchants with strictly decreasing totals give 100 entries and 'Other', merchantCount 105.
C20_TopMerchantsAndOther ==
    Aggregated =>
        /\ ret.merchantCount = Cardinality(MerchantsOf(value))
        /\ TopFolded(value, ret.merchantData, Cardinality(MerchantsOf(value)))
        /\ value = OneEach(105, "decreasing") =>
              /\ Len(ret.merchantData) = 101
              /\ ret.merchantData[101].merchant = OtherLabel
              /\ ret.merchantCount = 105

\* more than TopN merchants, one of them with several transactions, have been aggregated
C20_Witness ==
    /\ Aggregated
    /\ ret.merchantCount > TopN + 1
    /\ ret.transactionCount > ret.merchantCount
    /\ ~Less(ret.merchantData[1].amount, ret.merchantData[TopN].amount)
    /\ ret.merchantData[1].amount # ret.merchantData[TopN].amount

\* C30: the entries of merchantData carry pairwise distinct merchant labels, for every
\* transaction list: each merchant appears once and the fold bucket can be told from
\* every merchant, also when a merchant is itself named 'Other' and more than 100
\* merchants exist.
C30_DistinctLabels ==
    Aggregated =>
        \A n, k \in 1..Len(ret.merchantData) :
            ret.merchantData[n].merchant = ret.merchantData[k].merchant => n = k

(***************************************************************************)
(* DateUtils.getMonthKey, formatMonthHebrew, aggregateByMonth              *)
(*                                                                         *)
(* monthMap is the sequence of its entries [key, amount, count] in         *)
(* insertion order. dates[i] is what parseTransactionDate returned for     *)
(* transaction i.                                                          *)
(***************************************************************************)
\* getMonthKey(date): `${year}-${month}`, month padded to two digits; null for no Date
GetMonthKey(date) ==
    IF date = Null THEN Null
    ELSE Str(NatToString(date.y) \o <<"-">> \o PadStart(NatToString(date.mo), 2, "0"))

\* the names at lines 542-545
MonthNames ==
    <<<<"J", "a", "n", "u", "a", "r", "y">>,
      <<"F", "e", "b", "r", "u", "a", "r", "y">>,
      <<"M", "a", "r", "c", "h">>,
      <<"A", "p", "r", "i", "l">>,
      <<"M", "a", "y">>,
      <<"J", "u", "n", "e">>,
      <<"J", "u", "l", "y">>,
      <<"A", "u", "g", "u", "s", "t">>,
      <<"S", "e", "p", "t", "e", "m", "b", "e", "r">>,
      <<"O", "c", "t", "o", "b", "e", "r">>,
      <<"N", "o", "v", "e", "m", "b", "e", "r">>,
      <<"D", "e", "c", "e", "m", "b", "e", "r">>>>

\* formatMonthHebrew(monthKey), monthKey a string
FormatMonthHebrew(monthKey) ==
    LET parts == Split(monthKey.s, "-")
    IN  IF Len(monthKey.s) = 0 THEN EmptyString
        ELSE IF Len(parts) # 2 THEN monthKey
        ELSE LET monthIndex == ParseInt(parts[2])
             IN  IF monthIndex.k = "nan" THEN Str(ToStr(Undefined) \o <<" ">> \o parts[1])
                 ELSE IF monthIndex.m - 1 < 0 \/ monthIndex.m - 1 >= 12 THEN monthKey
                 ELSE Str(MonthNames[monthIndex.m] \o <<" ">> \o parts[1])

\* the rank of a character of a month key in the collation order: '-' sorts before digits
KeyRank(c) == IF c \in DigitSet THEN DigitVal(c) + 1 ELSE 0

RECURSIVE LocaleCompare(_, _)
\* a.localeCompare(b) for month keys: negative, zero or positive
LocaleCompare(a, b) ==
    IF Len(a) = 0 THEN (IF Len(b) = 0 THEN 0 ELSE -1)
    ELSE IF Len(b) = 0 THEN 1
    ELSE IF KeyRank(a[1]) # KeyRank(b[1]) THEN KeyRank(a[1]) - KeyRank(b[1])
    ELSE LocaleCompare(Tail(a), Tail(b))

\* mutant: a date that does not parse is not counted
InvalidDateUncounted(state) == state

\* invalidDates++
InvalidDate(state) == [state EXCEPT !.invalidDates = @ + 1]

\* lines 579-609 for one transaction of the merchant: invalidDates grows, or the entry of
\* its month grows or is set
SetMonth(state, transaction, date) ==
    LET monthKey == GetMonthKey(date)
        monthMap == state.monthMap
    IN  IF date = Null \/ monthKey = Null
        THEN InvalidDate(state)
        ELSE IF \E n \in 1..Len(monthMap) : monthMap[n].key = monthKey
        THEN LET n == CHOOSE n \in 1..Len(monthMap) : monthMap[n].key = monthKey
             IN  [state EXCEPT !.monthMap[n].amount = Plus(@, transaction.amountInILS),
                               !.monthMap[n].count = @ + 1]
        ELSE [state EXCEPT !.monthMap = Append(@, [key |-> monthKey,
                                                   amount |-> transaction.amountInILS,
                                                   count |-> 1])]

\* mutant: merchants are matched without regard to case
SameMerchantAnyCase(merchant, merchantName) == ToLowerCase(merchant) = ToLowerCase(merchantName)

\* transaction.merchant !== merchantName is false
SameMerchant(merchant, merchantName) == merchant = merchantName

RECURSIVE MonthsFrom(_, _, _, _, _)
\* transactions.forEach(...) at lines 574-610 from transaction i on
MonthsFrom(state, transactions, merchantName, dates, i) ==
    IF Evaluated(state) /\ i > Len(transactions) THEN state
    ELSE MonthsFrom(IF SameMerchant(transactions[i].merchant, merchantName)
                    THEN SetMonth(state, transactions[i], dates[i])
                    ELSE state,
                    transactions, merchantName, dates, i + 1)

\* mutant: later months first
KeyBeforeDescending(a, b) == LocaleCompare(a.key.s, b.key.s) > 0

\* the comparator (a, b) => a[0].localeCompare(b[0]) is negative: a goes before b
KeyBefore(a, b) == LocaleCompare(a.key.s, b.key.s) < 0

\* entry put into a sorted array after every entry it does not go before
InsertEntry(sorted, entry) ==
    LET place == Cardinality({n \in 1..Len(sorted) : ~KeyBefore(entry, sorted[n])})
    IN  SubSeq(sorted, 1, place) \o <<entry>> \o SubSeq(sorted, place + 1, Len(sorted))

RECURSIVE SortEntries(_, _, _)
\* the sort at lines 618-619, stable: the entries from i on put in turn into sorted
SortEntries(sorted, entries, i) ==
    IF Evaluated(sorted) /\ i > Len(entries) THEN sorted
    ELSE SortEntries(InsertEntry(sorted, entries[i]), entries, i + 1)

\* lines 618-632, state being what the loop left
MonthlyData(state, sortedEntries) ==
    [labels |-> [n \in 1..Len(sortedEntries) |-> FormatMonthHebrew(sortedEntries[n].key)],
     amounts |-> [n \in 1..Len(sortedEntries) |-> sortedEntries[n].amount],
     counts |-> [n \in 1..Len(sortedEntries) |-> sortedEntries[n].count],
     invalidDates |-> state.invalidDates]

AfterLoop(state) == MonthlyData(state, SortEntries(<<>>, state.monthMap, 1))

\* aggregateByMonth(transactions, merchantName), dates being the parsed dates
AggregateByMonth(transactions, merchantName, dates) ==
    AfterLoop(MonthsFrom([monthMap |-> <<>>, invalidDates |-> 0],
                         transactions, merchantName, dates, 1))

(***************************************************************************)
(* Inputs of aggregateByMonth                                              *)
(***************************************************************************)
DatedTx(merchant, date, amount) == [merchant |-> merchant, date |-> date, amountInILS |-> amount]
MerchantX == <<"X">>
MerchantLowerX == <<"x">>
MerchantY == <<"Y">>
DateText(day, sep, month, year) ==
    Str(TwoDigits(day) \o <<sep>> \o TwoDigits(month) \o <<sep>> \o NatToString(year))

\* transactions of X in March 2025 (50 and 70, the second dated by a serial number: 45731
\* is 2025-03-15), October 2025 and December 2024 (a refund), with a date
\* that is no date, with a date whose month depends on the time zone of the reader
\* (2025-03-01 is read as UTC midnight), and transactions of other merchants
DatedTransactions ==
    { DatedTx(MerchantX, DateText(15, "/", 3, 2025), Num(50, 0)),
      DatedTx(MerchantX, Num(45731, 0), Num(70, 0)),
      DatedTx(MerchantX, DateText(1, "-", 10, 2025), Num(105, 1)),
      DatedTx(MerchantX, DateText(10, ".", 12, 2024), Num(-30, 0)),
      DatedTx(MerchantX, Str(<<"a", "b", "c">>), Num(20, 0)),
      DatedTx(MerchantX, Str(<<"2", "0", "2", "5", "-", "0", "3", "-", "0", "1">>), Num(1, 0)),
      DatedTx(MerchantLowerX, DateText(15, "/", 3, 2025), Num(7, 0)),
      DatedTx(MerchantY, DateText(31, "/", 2, 2025), Num(5, 0)) }
MaxDated == 3
MonthInputs == SeqsUpTo(DatedTransactions, MaxDated)
\* the names asked for
MonthMerchants == {MerchantX, MerchantY}

RECURSIVE ReadingsOf(_, _, _)
\* the dates parseTransactionDate can return for the first n transactions of a list, one
\* reader (engine and time zone) reading them all: equal dates are read equally
ReadingsOf(transactions, shift, n) ==
    IF n = 0 THEN {<<>>}
    ELSE {Append(dates, date) :
             dates \in ReadingsOf(transactions, shift, n - 1),
             date \in ParseTransactionDate(transactions[n].date, shift)}
Readings(transactions, shift) ==
    {dates \in ReadingsOf(transactions, shift, Len(transactions)) :
        \A i, j \in 1..Len(transactions) :
            transactions[i].date = transactions[j].date => dates[i] = dates[j]}

InitMonth ==
    /\ data = <<>>
    /\ value \in MonthInputs
    /\ tzShift \in TzShifts
    /\ exchangeRates = FallbackRates
    /\ pc = "ready"
    /\ ret = Undefined
    /\ ParserAlone

\* aggregateByMonth(value, merchantName) after aggregateByMerchant(value)
CallAggregateByMonth(merchantName) ==
    /\ pc = "aggregateByMerchant"
    /\ pc' = "aggregateByMonth"
    /\ \E dates \in Readings(value, tzShift) :
          ret' = [byMerchant |-> ret, merchantName |-> merchantName,
                  byMonth |-> AggregateByMonth(value, merchantName, dates)]
    /\ UNCHANGED <<data, value, tzShift, exchangeRates>>
    /\ UNCHANGED appVars

NextMonth ==
    \/ CallAggregateByMerchant
    \/ \E merchantName \in MonthMerchants : CallAggregateByMonth(merchantName)
SpecMonth == InitMonth /\ [][NextMonth]_vars

(***************************************************************************)
(* Claims about aggregateByMonth                                           *)
(***************************************************************************)
MonthsAggregated == pc = "aggregateByMonth"

\* the transactions of the list that carry exactly this merchant
Mine(transactions, merchantName) ==
    {i \in 1..Len(transactions) : transactions[i].merchant = merchantName}
\* the calendar month of a date
MonthOfDate(date) == <<date.y, date.mo>>
Earlier(m1, m2) == m1[1] < m2[1] \/ (m1[1] = m2[1] /\ m1[2] < m2[2])

RECURSIVE SumAt(_, _)
\* the sum of amountInILS over the transactions at a set of positions
SumAt(transactions, positions) ==
    IF positions = {} THEN Num(0, 0)
    ELSE LET i == CHOOSE i \in positions : TRUE
         IN  Plus(transactions[i].amountInILS, SumAt(transactions, positions \ {i}))

\* out is the monthly series of the merchant's transactions under the reading dates: one
\* bucket per month that a parsed date falls in, the n-th bucket being the n-th month in
\* time, labelled with its name and year, with the sum and the number of its transactions
MonthBuckets(transactions, dated, dates, out) ==
    LET months == {MonthOfDate(dates[i]) : i \in dated}
    IN  /\ Len(out.labels) = Cardinality(months)
        /\ Len(out.amounts) = Cardinality(months)
        /\ Len(out.counts) = Cardinality(months)
        /\ \A month \in months :
              LET n == Cardinality({m \in months : Earlier(m, month)}) + 1
                  inMonth == {i \in dated : MonthOfDate(dates[i]) = month}
              IN  /\ out.labels[n] = Str(MonthNames[month[2]] \o <<" ">> \o NatToString(month[1]))
                  /\ out.counts[n] = Cardinality(inMonth)
                  /\ out.amounts[n] = SumAt(transactions, inMonth)

\* C21: aggregateByMonth(transactions, merchant) takes the transactions whose merchant is
\* exactly the name given, makes one bucket per calendar year-month among their parseable
\* dates, with the sum of amountInILS and the number of transactions of that month, and
\* returns the buckets in strictly ascending order of month; two transactions of X in one
\* month with amounts 50 and 70 give one bucket with amount 120 and count 2.
C21_MonthlyBuckets ==
    MonthsAggregated =>
        /\ \E dates \in Readings(value, tzShift) :
              MonthBuckets(value,
                           {i \in Mine(value, ret.merchantName) : dates[i] # Null},
                           dates, ret.byMonth)
        /\ (/\ ret.merchantName = MerchantX
            /\ value = <<DatedTx(MerchantX, DateText(15, "/", 3, 2025), Num(50, 0)),
                         DatedTx(MerchantX, Num(45731, 0), Num(70, 0))>>)
              => /\ ret.byMonth.amounts = <<Num(120, 0)>>
                 /\ ret.byMonth.counts = <<2>>

\* a series of several months, the later one with several transactions, has been made
C21_Witness ==
    /\ MonthsAggregated
    /\ Len(ret.byMonth.labels) = 2
    /\ ret.byMonth.counts = <<1, 2>>
    /\ ret.byMonth.amounts[2] = Num(120, 0)

RECURSIVE SumOfCounts(_)
SumOfCounts(counts) == IF Len(counts) = 0 THEN 0 ELSE Head(counts) + SumOfCounts(Tail(counts))

\* C22: a transaction whose date does not parse is kept and counted: it is part of the
\* totals of aggregateByMerchant, it is in no bucket of aggregateByMonth and adds one to
\* invalidDates, so that for every merchant the bucket counts and invalidDates add up to
\* the number of the merchant's transactions.
C22_InvalidDatesCounted ==
    MonthsAggregated =>
        /\ \E dates \in Readings(value, tzShift) :
              /\ ret.byMonth.invalidDates =
                     Cardinality({i \in Mine(value, ret.merchantName) : dates[i] = Null})
              /\ Len(ret.byMonth.counts) > 0 =>
                     \E i \in Mine(value, ret.merchantName) : dates[i] # Null
        /\ SumOfCounts(ret.byMonth.counts) + ret.byMonth.invalidDates
               = Cardinality(Mine(value, ret.merchantName))
        /\ ret.byMerchant.transactionCount = Len(value)
        /\ ret.byMerchant.totalExpenses = AmountsOf(value, 1, Len(value))
        /\ \A n \in 1..Len(ret.byMerchant.merchantData) :
              ret.byMerchant.merchantData[n].amount =
                  GroupTotal(value, ret.byMerchant.merchantData[n].merchant, 1, Len(value))

\* a merchant with a dated and an undated transaction has been aggregated
C22_Witness ==
    /\ MonthsAggregated
    /\ ret.byMonth.invalidDates > 0
    /\ Len(ret.byMonth.labels) > 0
    /\ ret.byMerchant.totalExpenses # Num(0, 0)

(***************************************************************************)
(* CreditAnalyzerApp: the handlers of the page                             *)
(*                                                                         *)
(* files is selectedFiles and ret is allTransactions. page holds           *)
(* parseResults, excludedMerchants, merchantCount, contextMenuMerchant     *)
(* and what is displayed: menu (the context menu), chart (the pie chart of *)
(* ChartManager, Null when there is none), resultsSection, restoreBtn, and *)
(* errorMessage (the text shown, "" when the element is hidden).           *)
(* A parseFiles call in flight is a run [detached, own, next, file,        *)
(* results]: it iterates the array it was given, which is selectedFiles    *)
(* itself until clearAll assigns a new array to selectedFiles (detached,   *)
(* own being the array it keeps); file is the file being read, the         *)
(* next-th of the array.                                                   *)
(***************************************************************************)
\* the fields after the constructor, nothing displayed
NewPage ==
    [parseResults |-> <<>>, excludedMerchants |-> {}, merchantCount |-> 0,
     contextMenuMerchant |-> Undefined, menu |-> FALSE, chart |-> Null,
     resultsSection |-> FALSE, restoreBtn |-> FALSE, errorMessage |-> ""]

\* hist is history, which the code does not keep: last is the selection the last event
\* handed to handleFileSelection (<<>> after any other event), cleared is whether clearAll
\* ran and no selection came since, burst tells of the analyses started since none was
\* in flight whether there is one ("single"), or more ("overlapping"), or a file was
\* removed or the selection cleared since ("disturbed")
NoHistory == [last |-> <<>>, cleared |-> FALSE, burst |-> "single"]

\* the analyses that may be in flight at a time
MaxRuns == 2

\* what renderPieChart keeps of aggregatedData (lines 26-27 of chart-manager.js)
ChartOf(aggregatedData) ==
    [k |-> "chart",
     labels |-> [n \in 1..Len(aggregatedData.merchantData) |->
                    aggregatedData.merchantData[n].merchant],
     data |-> [n \in 1..Len(aggregatedData.merchantData) |->
                  aggregatedData.merchantData[n].amount],
     totalExpenses |-> aggregatedData.totalExpenses]

\* displayResults(aggregatedData)
DisplayResults(p, aggregatedData) ==
    [p EXCEPT !.chart = ChartOf(aggregatedData),
              !.restoreBtn = (p.excludedMerchants # {}),
              !.resultsSection = TRUE]

\* mutant: the file is pushed whether it is selected already or not
AddFilesAll(selected, xlsxFiles) == selected \o xlsxFiles

\* the .xlsx files of a selection (lines 169-171)
XlsxFiles(batch) == SelectSeq(batch, LAMBDA file : IsXlsxName(file.name))

\* the forEach at lines 180-186
AddFiles(selected, xlsxFiles) == AddNewFiles(selected, xlsxFiles)

\* parseFiles(selectedFiles) up to its first await: the first file is being read
NewRun(selected) ==
    [detached |-> FALSE, own |-> <<>>, next |-> 1, file |-> selected[1], results |-> <<>>]

\* handleFileSelection(batch), selected being the array after lines 180-186: with no
\* .xlsx file the error is shown; with a new file analyzeFiles runs up to its await
SelectionHandled(batch, selected) ==
    IF Len(XlsxFiles(batch)) = 0
    THEN /\ page' = [page EXCEPT !.errorMessage = "Please select XLSX files only"]
         /\ hist' = [hist EXCEPT !.last = batch, !.cleared = FALSE]
         /\ UNCHANGED <<files, runs>>
    ELSE /\ files' = selected
         /\ IF Len(selected) > Len(files)
            THEN /\ Len(runs) < MaxRuns
                 /\ runs' = Append(runs, NewRun(selected))
                 /\ page' = [page EXCEPT !.errorMessage = "", !.resultsSection = FALSE]
                 /\ hist' = [last |-> batch, cleared |-> FALSE,
                             burst |-> IF Len(runs) = 0 THEN "single"
                                       ELSE IF hist.burst = "disturbed" THEN "disturbed"
                                       ELSE "overlapping"]
            ELSE /\ runs' = runs
                 /\ page' = [page EXCEPT !.errorMessage = ""]
                 /\ hist' = [hist EXCEPT !.last = batch, !.cleared = FALSE]

FilesSelected(batch) ==
    /\ fetch # "none"
    /\ SelectionHandled(batch, AddFiles(files, XlsxFiles(batch)))
    /\ UNCHANGED <<data, value, tzShift, exchangeRates, pc, ret, fetch, response, results,
                   reading, log>>

\* analyzeFiles after its await (lines 267-300), recorded being what parseFiles returned
\* and aggregatedData the aggregate of all their transactions, those of the excluded
\* merchants too (line 287), used when there are any
AnalysisDone(recorded, allTransactions, aggregatedData) ==
    /\ ret' = allTransactions
    /\ page' =
          IF Len(allTransactions) = 0
          THEN [page EXCEPT !.parseResults = recorded,
                            !.errorMessage = "No transactions found in files"]
          ELSE DisplayResults(
                   [page EXCEPT !.parseResults = recorded,
                                !.errorMessage =
                                    IF \E n \in 1..Len(recorded) : "error" \in DOMAIN recorded[n]
                                    THEN "Error processing files" ELSE @,
                                !.merchantCount = aggregatedData.merchantCount],
                   aggregatedData)

\* mutant: a run reads the file it started with and no other
ArrayAtStart(run) == <<run.file>>

\* the array a run iterates
ArrayOf(run) == IF run.detached THEN run.own ELSE files

Without(seq, n) == SubSeq(seq, 1, n - 1) \o SubSeq(seq, n + 1, Len(seq))

\* the loop of parseFiles of run r after the promise of its file has settled, recorded
\* being its results then: the next file of its array is read, or parseFiles returns and
\* analyzeFiles goes on
RunContinues(r, recorded) ==
    IF runs[r].next < Len(ArrayOf(runs[r]))
    THEN /\ runs' = [runs EXCEPT ![r] = [@ EXCEPT !.results = recorded,
                                                  !.next = @ + 1,
                                                  !.file = ArrayOf(runs[r])[runs[r].next + 1]]]
         /\ UNCHANGED <<ret, page>>
    ELSE /\ runs' = Without(runs, r)
         /\ AnalysisDone(recorded, GetAllTransactions(recorded),
                         AggregateByMerchant(GetAllTransactions(recorded)))

\* the promise of parseFile settles for the file run r is reading
RunSettles(r, settled) ==
    RunContinues(r, IF settled.rejected
                    THEN AfterFailure(runs[r].results, runs[r].file, settled.message)
                    ELSE PushResult(runs[r].results, settled.result))

\* reader.onload or reader.onerror of the file that run r is reading
ReaderSettles(r) ==
    /\ r \in 1..Len(runs)
    /\ RunSettles(r, IF runs[r].file.content.kind = "unreadable"
                     THEN Settled(runs[r].file, Undefined, Undefined)
                     ELSE ParseFile(runs[r].file, exchangeRates))
    /\ hist' = [hist EXCEPT !.last = <<>>]
    /\ UNCHANGED <<data, value, tzShift, exchangeRates, pc, fetch, response, files, results,
                   reading, log>>

\* hideContextMenu(), which the document's click listener calls after a button's own
HideContextMenu(p) == [p EXCEPT !.menu = FALSE]

\* a click on the Remove button of the index-th file: removeFile(index - 1)
RemoveFile(index) ==
    /\ index \in 1..Len(files)
    /\ files' = Without(files, index)
    /\ page' = HideContextMenu(page)
    /\ hist' = [hist EXCEPT !.last = <<>>, !.burst = "disturbed"]
    /\ UNCHANGED <<data, value, tzShift, exchangeRates, pc, ret, fetch, response, results,
                   reading, log, runs>>

\* the fields of the page after clearAll()
ClearedPage(p) ==
    HideContextMenu([p EXCEPT !.parseResults = <<>>, !.excludedMerchants = {},
                              !.resultsSection = FALSE, !.chart = Null,
                              !.errorMessage = ""])

\* a click on the clear button, shown while files are selected: clearAll(). The runs in
\* flight keep the array they were given
ClearAll ==
    /\ Len(files) > 0
    /\ files' = <<>>
    /\ ret' = <<>>
    /\ page' = ClearedPage(page)
    /\ runs' = [r \in 1..Len(runs) |->
                   IF runs[r].detached THEN runs[r]
                   ELSE [runs[r] EXCEPT !.detached = TRUE, !.own = files]]
    /\ hist' = [last |-> <<>>, cleared |-> TRUE, burst |-> "disturbed"]
    /\ UNCHANGED <<data, value, tzShift, exchangeRates, pc, fetch, response, results,
                   reading, log>>

\* canExcludeMerchant(merchant)
CanExcludeMerchant(merchant, merchantCount) == merchant # OtherLabel /\ merchantCount > 1

\* a right click on the index-th slice or legend item of the chart: the contextmenu
\* listener dispatches legendRightClick, showMerchantContextMenu handles it
ShowMerchantContextMenu(index) ==
    /\ page.resultsSection
    /\ page.chart # Null
    /\ index \in 1..Len(page.chart.labels)
    /\ page' = [page EXCEPT !.contextMenuMerchant = Str(page.chart.labels[index]),
                            !.menu = IF CanExcludeMerchant(page.chart.labels[index],
                                                           page.merchantCount)
                                     THEN TRUE ELSE @]
    /\ hist' = [hist EXCEPT !.last = <<>>]
    /\ UNCHANGED <<data, value, tzShift, exchangeRates, pc, ret, fetch, response, files,
                   results, reading, log, runs>>

\* tx => !this.excludedMerchants.has(tx.merchant)
Filtered(allTransactions, excludedMerchants) ==
    SelectSeq(allTransactions, LAMBDA tx : tx.merchant \notin excludedMerchants)

\* refreshVisualization(), aggregatedData being the aggregate of the filtered list
Refreshed(p, aggregatedData) ==
    DisplayResults([p EXCEPT !.merchantCount = aggregatedData.merchantCount], aggregatedData)
RefreshVisualization(p) == Refreshed(p, AggregateByMerchant(Filtered(ret, p.excludedMerchants)))

\* a click on the remove item of the context menu: removeMerchant()
RemoveMerchant ==
    /\ page.menu
    /\ page' = IF ~Truthy(page.contextMenuMerchant) THEN HideContextMenu(page)
               ELSE RefreshVisualization(
                        [page EXCEPT !.excludedMerchants = @ \cup {page.contextMenuMerchant.s},
                                     !.menu = FALSE])
    /\ hist' = [hist EXCEPT !.last = <<>>]
    /\ UNCHANGED <<data, value, tzShift, exchangeRates, pc, ret, fetch, response, files,
                   results, reading, log, runs>>

\* a click on the restore button while it is displayed: restoreAllMerchants()
RestoreAllMerchants ==
    /\ page.restoreBtn
    /\ page.resultsSection
    /\ page' = RefreshVisualization([page EXCEPT !.excludedMerchants = {}, !.menu = FALSE])
    /\ hist' = [hist EXCEPT !.last = <<>>]
    /\ UNCHANGED <<data, value, tzShift, exchangeRates, pc, ret, fetch, response, files,
                   results, reading, log, runs>>

\* a click anywhere else while the context menu is open
DocumentClick ==
    /\ page.menu
    /\ page' = HideContextMenu(page)
    /\ hist' = [hist EXCEPT !.last = <<>>]
    /\ UNCHANGED <<data, value, tzShift, exchangeRates, pc, ret, fetch, response, files,
                   results, reading, log, runs>>

(***************************************************************************)
(* Inputs of the page                                                      *)
(***************************************************************************)
\* a sheet with one merchant, whose name is the label of the fold bucket; the extension
\* is in capitals
OtherFile ==
    [name |-> FileName("o", <<"X", "L", "S", "X">>), size |-> 2,
     content |-> Sheet(<<HeaderRowA, RowA(March15, Str(OtherLabel), Num(5, 0), Shekel,
                                         EmptyString)>>)]
\* what the user picks or drops at once
PageBatches ==
    { <<PlainFile>>, <<OtherFile, PlainFile>>, <<TextFile>>, <<TextFile, OtherFile, OtherFile>> }

\* the page after new CreditAnalyzerApp(): the rate request is in flight
InitPage ==
    /\ data = <<>>
    /\ value = Undefined
    /\ tzShift = 0
    /\ exchangeRates = NoRates
    /\ pc = "ready"
    /\ ret = <<>>
    /\ fetch = "awaitFetch"
    /\ response = Undefined
    /\ files = <<>>
    /\ results = <<>>
    /\ reading = 0
    /\ log = <<>>
    /\ page = NewPage
    /\ runs = <<>>
    /\ hist = NoHistory

\* selecting, removing and clearing files, and the analyses. The sheets of PageBatches
\* hold shekel amounts only, so that no result depends on the rate table, and the rate
\* request stays in flight
NextSelection ==
    \/ \E batch \in PageBatches : FilesSelected(batch)
    \/ \E r \in 1..MaxRuns : ReaderSettles(r)
    \/ \E index \in 1..MaxFiles : RemoveFile(index)
    \/ ClearAll
SpecSelection == InitPage /\ [][NextSelection]_vars

\* selecting files, the analyses, and excluding and restoring merchants
NextExclusion ==
    \/ \E batch \in PageBatches : FilesSelected(batch)
    \/ \E r \in 1..MaxRuns : ReaderSettles(r)
    \/ \E index \in 1..(2 * MaxFiles) : ShowMerchantContextMenu(index)
    \/ RemoveMerchant
    \/ RestoreAllMerchants
    \/ DocumentClick
SpecExclusion == InitPage /\ [][NextExclusion]_vars

(***************************************************************************)
(* Claims about the page                                                   *)
(***************************************************************************)
\* the name ends in .xlsx, in whatever case
EndsInXlsx(name) ==
    /\ Len(name) >= 5
    /\ name[Len(name) - 4] = "."
    /\ name[Len(name) - 3] \in {"x", "X"}
    /\ name[Len(name) - 2] \in {"l", "L"}
    /\ name[Len(name) - 1] \in {"s", "S"}
    /\ name[Len(name)] \in {"x", "X"}
SameFile(a, b) == a.name = b.name /\ a.size = b.size
WellSelected(selected) ==
    /\ \A n \in 1..Len(selected) : EndsInXlsx(selected[n].name)
    /\ \A n, m \in 1..Len(selected) : n < m => ~SameFile(selected[n], selected[m])
XlsxOnlyMessage == "Please select XLSX files only"

\* C28: selectedFiles holds only files whose name ends in .xlsx, in any case, and no two
\* of the same name and size; a selection none of whose .xlsx files is new starts no
\* analysis; a selection with no .xlsx file leaves selectedFiles as it was and shows the
\* error
C28_FileSelection ==
    [][/\ WellSelected(files')
       /\ hist'.last # <<>> =>
             /\ (\A n \in 1..Len(hist'.last) :
                     EndsInXlsx(hist'.last[n].name) =>
                         \E m \in 1..Len(files) : SameFile(files[m], hist'.last[n]))
                => /\ runs' = runs
                   /\ files' = files
                   /\ page'.resultsSection = page.resultsSection
             /\ (\A n \in 1..Len(hist'.last) : ~EndsInXlsx(hist'.last[n].name))
                => /\ files' = files
                   /\ page'.errorMessage = XlsxOnlyMessage]_vars
\* two files are selected, one with the extension in capitals, no analysis is in flight
\* and the last event was a selection of a text file and twice a file selected already
C28_Witness ==
    /\ hist.last = <<TextFile, OtherFile, OtherFile>>
    /\ Len(files) = 2
    /\ runs = <<>>
    /\ page.resultsSection

RECURSIVE TransactionsFrom(_, _)
\* the transactions of the first n results, those of a failed file being none
TransactionsFrom(parseResults, n) ==
    IF n = 0 THEN <<>>
    ELSE TransactionsFrom(parseResults, n - 1)
         \o (IF "error" \in DOMAIN parseResults[n] THEN <<>> ELSE parseResults[n].transactions)

\* C29: when no analysis is in flight any more and no file was removed and nothing was
\* cleared since the analyses started, parseResults has one result for each entry of
\* selectedFiles, in order, and allTransactions is the transactions of the successful
\* results in that order
C29_OverlappingAnalysesConverge ==
    (runs = <<>> /\ hist.burst # "disturbed") =>
        /\ Len(page.parseResults) = Len(files)
        /\ \A n \in 1..Len(files) : page.parseResults[n].fileName = files[n].name
        /\ ret = TransactionsFrom(page.parseResults, Len(page.parseResults))
\* two analyses overlapped, both have completed, and two files are selected and shown
C29_Witness ==
    /\ runs = <<>>
    /\ hist.burst = "overlapping"
    /\ Len(files) = 2
    /\ Len(page.parseResults) = 2
    /\ page.resultsSection

\* C24: from clearAll until the next selection of files, selectedFiles, parseResults,
\* allTransactions and excludedMerchants are empty and no results are shown
C24_ClearedStaysCleared ==
    hist.cleared =>
        /\ files = <<>>
        /\ page.parseResults = <<>>
        /\ ret = <<>>
        /\ page.excludedMerchants = {}
        /\ ~page.resultsSection

\* C23: while results are shown, no label of the chart is an excluded merchant, and the
\* total is that of the transactions of the merchants not excluded
C23_ExclusionsApplied ==
    (page.resultsSection /\ page.chart # Null) =>
        /\ \A n \in 1..Len(page.chart.labels) :
               page.chart.labels[n] \notin page.excludedMerchants
        /\ page.chart.totalExpenses =
               TotalOfGroups(ret, MerchantsOf(ret) \ page.excludedMerchants)

\* C26: 'Other' is never in excludedMerchants, and some merchant of the transactions is
\* not excluded
C26_ExclusionGuard ==
    /\ OtherLabel \notin page.excludedMerchants
    /\ Len(ret) > 0 => \E n \in 1..Len(ret) : ret[n].merchant \notin page.excludedMerchants

(***************************************************************************)
(* Inputs of parseAmount                                                   *)
(***************************************************************************)
MaxAmountLen == 4
AmountAlphabet == {"0", "1", "5", ".", "-", ",", " ", "x"}
\* every string over the alphabet, up to the bound
AmountStrings == UNION {[1..n -> AmountAlphabet] : n \in 0..MaxAmountLen}
AmountExamples ==
    { <<"1", ",", "2", "3", "4", ".", "5", "6">>, <<"-", "5", "0">>, <<"0", ".", "0", "0">>,
      <<"1", "2", "-", "3", "4">>, <<"5", "0", "-">>, <<"T", "o", "t", "a", "l">> }
AmountNumbers == {Num(m, e) : m \in {-50, 0, 5, 123456}, e \in {0, 2}}
AmountInputs ==
    {Null, Undefined} \cup AmountNumbers \cup {Str(s) : s \in AmountStrings \cup AmountExamples}

InitAmount ==
    /\ data = <<>>
    /\ value \in AmountInputs
    /\ tzShift = 0
    /\ exchangeRates = NoRates
    /\ pc = "ready"
    /\ ret = Undefined
    /\ ParserAlone

CallParseAmount ==
    /\ pc = "ready"
    /\ pc' = "parseAmount"
    /\ ret' = ParseAmount(value)
    /\ UNCHANGED <<data, value, tzShift, exchangeRates>>
    /\ UNCHANGED appVars

NextAmount == CallParseAmount
SpecAmount == InitAmount /\ [][NextAmount]_vars

(***************************************************************************)
(* Claims about parseAmount                                                *)
(***************************************************************************)
\* the characters of s that are digits, points or minus signs, in order
NumericChars(s) == SelectSeq(s, LAMBDA c : c \in DigitSet \cup {".", "-"})

\* k starts with a decimal literal: [-]d, [-].d
StartsWithNumber(k) ==
    LET b == IF Len(k) > 0 /\ k[1] = "-" THEN Tail(k) ELSE k
    IN  /\ Len(b) > 0
        /\ \/ b[1] \in DigitSet
           \/ Len(b) > 1 /\ b[1] = "." /\ b[2] \in DigitSet

Absent(v) == v.k \in {"null", "undef"} \/ v = EmptyString

\* C4: parseAmount returns null, never 0, for null, undefined, the empty string and
\* every input with no number left after cleaning (and only for those); inputs
\* denoting zero return 0; "1,234.56" is 1234.56 and "-50" is -50.
C4_AbsentIsNullNotZero ==
    pc = "parseAmount" =>
        /\ Absent(value) => ret = Null
        /\ (~Absent(value) /\ ~StartsWithNumber(NumericChars(ToStr(value)))) => ret = Null
        /\ (~Absent(value) /\ StartsWithNumber(NumericChars(ToStr(value)))) => ret.k = "num"
        /\ value \in {Num(0, 0), Str(<<"0">>), Str(<<"0", ".", "0", "0">>)} => ret = Num(0, 0)
        /\ value = Str(<<"1", ",", "2", "3", "4", ".", "5", "6">>) => ret = Num(123456, 2)
        /\ value = Str(<<"-", "5", "0">>) => ret = Num(-50, 0)

\* an input with characters but no number in it has been parsed to null
C4_Witness ==
    /\ pc = "parseAmount"
    /\ value = Str(<<"-", ".", "x">>)
    /\ ret = Null

\* the part of k before its first minus sign that is not at the start
RECURSIVE UpToInnerMinus(_, _)
UpToInnerMinus(k, i) ==
    IF i > Len(k) THEN k
    ELSE IF i > 1 /\ k[i] = "-" THEN SubSeq(k, 1, i - 1)
    ELSE UpToInnerMinus(k, i + 1)

NumberOrNull(s) == IF ParseFloat(s).k = "nan" THEN Null ELSE ParseFloat(s)

\* C5 as stated: only a leading minus sign survives cleaning, so the value is parsed
\* from the digits and points with the inner minus signs stripped ("12-34" from 1234).
C5_InnerMinusStripped ==
    (pc = "parseAmount" /\ value.k = "str" /\ value # EmptyString) =>
        ret = NumberOrNull(CleanValueLeadingMinus(value.s))

\* C5 amended: cleaning keeps every digit, point and minus sign, wherever the minus
\* stands; a minus that is not the first kept character ends the number, so the
\* result is that of the kept characters before it ("12-34" is 12, "50-" is 50).
C5_InnerMinusEndsNumber ==
    (pc = "parseAmount" /\ value.k = "str") =>
        /\ ret = ParseAmount(Str(UpToInnerMinus(NumericChars(value.s), 1)))
        /\ value = Str(<<"1", "2", "-", "3", "4">>) => ret = Num(12, 0)
        /\ value = Str(<<"5", "0", "-">>) => ret = Num(50, 0)

\* "12-34" has been parsed, to 12
C5_Witness ==
    /\ pc = "parseAmount"
    /\ value = Str(<<"1", "2", "-", "3", "4">>)
    /\ ret = Num(12, 0)

====
